---- MODULE Spec2Model ----
(***************************************************************************)
(* Model of the ivms101 crate: the typed IVMS101 schema, its validation    *)
(* rules C1..C11, its builders and accessors and its encoding.             *)
(*                                                                         *)
(* The crate is a library of immutable values and of pure validate()       *)
(* operations.  A behaviour of the model takes one value (the subject),    *)
(* drawn by Init from a bounded set of values of the schema, and applies   *)
(* the operations of the crate to it; res records the operation applied    *)
(* last and what it returned.                                              *)
(*                                                                         *)
(* src/src/messages.rs and src/src/lib.rs are two revisions of the same    *)
(* code.  Operators without prefix follow messages.rs; where lib.rs        *)
(* differs in behaviour the operator of lib.rs carries the prefix lib_.    *)
(* Enumeration codes are written as their wire tags ("LEGL", "GEOG", ...)  *)
(* in both.                                                                *)
(*                                                                         *)
(* The one piece of process-wide state is the country-name table of        *)
(* country_codes.rs, a OnceLock filled on first use; COUNTRY_CODES and     *)
(* threads model it and the concurrent calls of country().                 *)
(***************************************************************************)
EXTENDS Integers, Sequences, FiniteSets, TLC

VARIABLES
    subject,    \* the value operated on: [ty |-> type name, val |-> value]
    res,        \* the last operation and its outcome
    now,        \* chrono::Utc::now().date_naive(), as a day number
    wire,       \* the encoded form last handed to or produced by serde
    COUNTRY_CODES,  \* the static of country_codes.rs: a OnceLock and its value
    threads     \* the calls of country() under way, one thread each

vars == <<subject, res, now, wire, COUNTRY_CODES, threads>>

-----------------------------------------------------------------------------
(* Bounds of the model *)

\* longest list generated for a OneToN / ZeroToN field of a leaf entity
MaxList == 2
\* longest geographic_address list generated for a person
MaxAddrs == 2
\* longest person list generated for an Originator
MaxPersons == 2
\* last day number of the calendar
MaxDay == 3
\* number of threads that call country()
MaxThreads == 2

Days == 0..MaxDay

SeqsUpTo(S, n) == UNION {[1..k -> S] : k \in 0..n}

-----------------------------------------------------------------------------
(* Option<T>, Result<T, E> *)

None == <<>>
Some(x) == <<x>>
is_none(o) == o = <<>>
is_some(o) == o # <<>>

Ok == [ok |-> TRUE, msg |-> ""]
Err(m) == [ok |-> FALSE, msg |-> m]

\* Iterator::try_for_each over the results of the closure, in iteration
\* order: the first error, else Ok
try_for_each(results) ==
    IF \E i \in 1..Len(results) : ~results[i].ok
    THEN results[CHOOSE i \in 1..Len(results) :
                    /\ ~results[i].ok
                    /\ \A j \in 1..(i - 1) : results[j].ok]
    ELSE Ok

\* Iterator::any over the values of the predicate, in iteration order
any(hits) == \E i \in 1..Len(hits) : hits[i]

-----------------------------------------------------------------------------
(* types::OneToN, types::NonEmptyVec, types::ZeroToN *)

One(t) == [tag |-> "One", items |-> <<t>>]
N(v) == [tag |-> "N", items |-> v]
ZNone == [tag |-> "None", items |-> <<>>]

NonEmptyVec_first(nev) == nev[1]

OneToN_first(c) ==
    IF c.tag = "One" THEN c.items[1] ELSE NonEmptyVec_first(c.items)

OneToN_into_iter(c) ==
    IF c.tag = "One" THEN <<c.items[1]>> ELSE c.items

\* the mutant takes an empty list for an item
ZeroToN_is_empty_none_only(c) == c.tag = "None"

ZeroToN_is_empty(c) ==
    CASE c.tag = "None" -> TRUE
      [] c.tag = "One" -> FALSE
      [] c.tag = "N" -> c.items = <<>>

ZeroToN_first(c) ==
    CASE c.tag = "None" -> None
      [] c.tag = "One" -> Some(c.items[1])
      [] c.tag = "N" -> IF c.items = <<>> THEN None ELSE Some(c.items[1])

ZeroToN_into_iter(c) ==
    CASE c.tag = "None" -> <<>>
      [] c.tag = "One" -> <<c.items[1]>>
      [] c.tag = "N" -> c.items

ZeroToN_from_option(o) == IF is_some(o) THEN One(o[1]) ELSE ZNone

\* every OneToN value over S with lists of at most n elements
OneToNValues(S, n) ==
    {One(x) : x \in S} \cup {N(v) : v \in SeqsUpTo(S, n) \ {<<>>}}

\* every ZeroToN value over S with lists of at most n elements
ZeroToNValues(S, n) ==
    {ZNone} \cup {One(x) : x \in S} \cup {N(v) : v \in SeqsUpTo(S, n)}

-----------------------------------------------------------------------------
(* Enumeration codes *)

NaturalPersonNameTypeCode == {"ALIA", "BIRT", "MAID", "LEGL", "MISC"}
LegalPersonNameTypeCode == {"LEGL", "SHRT", "TRAD"}
AddressTypeCode == {"HOME", "BIZZ", "GEOG"}
NationalIdentifierTypeCode ==
    {"ARNU", "CCPT", "RAID", "DRLC", "FIIN", "TXID", "SOCS", "IDCD", "LEIX", "MISC"}

-----------------------------------------------------------------------------
(* External lookups: the tables of the crates iso3166_1 and lei, restricted *)
(* to the codes the model draws.                                            *)

\* iso3166_1::alpha2(code).is_some(); "XX" and "RR" are not ISO 3166-1 codes
iso3166_1_alpha2(code) == code \in {"CH", "DE"}

\* lei::registration_authority::is_valid_ra
is_valid_ra(code) == code \in {"RA000001", "RA000094"}

\* lei::LEI::try_from(text).is_ok()
LEI_try_from(text) == text \in {"2594007XIACKNMUAW223"}

-----------------------------------------------------------------------------
(* constrained_string!: CountryCode (length 2), RegistrationAuthority      *)
(* (length 8); StringMaxNN values are the texts themselves.                *)

CountryCode_len_check(l) == l = 2
RegistrationAuthority_len_check(l) == l = 8

\* len_ok: the macro's $len_check applied to from.len()
constrained_try_from(len_ok, type_name, from) ==
    IF len_ok
    THEN [ok |-> TRUE, msg |-> "", value |-> [inner |-> from]]
    ELSE [ok |-> FALSE,
          msg |-> "Cannot parse String of length " \o ToString(Len(from))
                    \o " into a \"" \o type_name \o "\"",
          value |-> [inner |-> ""]]

CountryCode_try_from(from) ==
    constrained_try_from(CountryCode_len_check(Len(from)),
                         "ivms101::messages::CountryCode", from)

RegistrationAuthority_try_from(from) ==
    constrained_try_from(RegistrationAuthority_len_check(Len(from)),
                         "ivms101::messages::RegistrationAuthority", from)

\* country_codes.rs, the CountryCode of lib.rs: the mutant tests the length
lib_CountryCode_try_from_length_only(from) ==
    IF Len(from) # 2
    THEN [ok |-> FALSE, msg |-> "invalid country code: " \o from,
          value |-> [inner |-> ""]]
    ELSE [ok |-> TRUE, msg |-> "", value |-> [inner |-> from]]

\* country_codes.rs, the CountryCode of lib.rs; msg is the text of
\* Error::InvalidCountryCode
lib_CountryCode_try_from(from) ==
    IF ~iso3166_1_alpha2(from) /\ from # "XX"
    THEN [ok |-> FALSE, msg |-> "invalid country code: " \o from,
          value |-> [inner |-> ""]]
    ELSE [ok |-> TRUE, msg |-> "", value |-> [inner |-> from]]

\* types/mod.rs: the bounded texts; the mutant excludes the bound itself
StringMax35_len_check_strict(l) == l < 35
StringMax35_len_check(l) == l <= 35

ConstrainedTypes ==
    {"StringMax16", "StringMax35", "StringMax50", "StringMax70", "StringMax100",
     "CountryCode", "RegistrationAuthority"}

\* $len_check of the type applied to a length (types/mod.rs,
\* messages.rs)
len_check(type, l) ==
    CASE type = "StringMax16" -> l <= 16
      [] type = "StringMax35" -> StringMax35_len_check(l)
      [] type = "StringMax50" -> l <= 50
      [] type = "StringMax70" -> l <= 70
      [] type = "StringMax100" -> l <= 100
      [] type = "CountryCode" -> CountryCode_len_check(l)
      [] type = "RegistrationAuthority" -> RegistrationAuthority_len_check(l)

\* std::any::type_name::<Self>()
type_name(type) ==
    IF type \in {"CountryCode", "RegistrationAuthority"}
    THEN "ivms101::messages::" \o type
    ELSE "ivms101::types::" \o type

\* <$newtype as TryFrom<&str>>::try_from
Constrained_try_from(type, from) ==
    constrained_try_from(len_check(type, Len(from)), type_name(type), from)

\* $newtype::as_str
Constrained_as_str(self) == self.inner

\* the Display of ValidationError: #[error("Validation error: {0}")]
ValidationError_to_string(msg) == "Validation error: " \o msg

\* a string token of the encoded form
Str(text) == [ty |-> "Str", val |-> text]

\* #[serde(into = "String")]: the value is encoded as its inner text
Constrained_serialize(self) == Str(self.inner)

\* #[serde(try_from = "&str")]: the token is handed to try_from, whose error
\* becomes the decoding error through its Display
Constrained_deserialize(type, token) ==
    IF token.ty # "Str"
    THEN [ok |-> FALSE, msg |-> "invalid type", value |-> [inner |-> ""]]
    ELSE LET r == Constrained_try_from(type, token.val)
         IN  IF r.ok THEN r
             ELSE [r EXCEPT !.msg = ValidationError_to_string(r.msg)]

\* a text of n characters
\* texts at both sides of every bound, and texts with blanks and mixed case
ConstrainedTexts ==
    LET TextOfLength[n \in 0..101] ==
            IF n = 0 THEN "" ELSE "x" \o TextOfLength[n - 1]
    IN  {TextOfLength[n] : n \in {0, 1, 2, 3, 7, 8, 9, 16, 17, 35, 36, 50, 51,
                                  70, 71, 100, 101}}
            \cup {" c", "Ch", "ch ", " Ra00001"}

\* the mutant forgets the "XX" placeholder
CountryCode_validate_no_sentinel(cc) ==
    IF iso3166_1_alpha2(cc.inner)
    THEN Ok
    ELSE Err("Invalid country code (IVMS101 C3)")

CountryCode_validate(cc) ==
    IF cc.inner = "XX"
    THEN Ok
    ELSE IF iso3166_1_alpha2(cc.inner)
         THEN Ok
         ELSE Err("Invalid country code (IVMS101 C3)")

\* the mutant accepts every code
RegistrationAuthority_validate_accept(ra) == Ok

RegistrationAuthority_validate(ra) ==
    IF ~is_valid_ra(ra.inner)
    THEN Err("Provided registration authority is not on the GLEIF list (IVMS101 C10)")
    ELSE Ok

\* the values the model draws for the two code types: built by try_from
CountryTexts == {"CH", "DE", "XX", "RR", "C", "CHE"}

-----------------------------------------------------------------------------
(* The rule tag of an error, as the tests read it *)

\* str::ends_with, over the texts that precede a tag in the messages of the
\* crate
ends_with(text, suffix) ==
    LET MessageHeads ==
        {"Natural person: one of 1) geographic address 2) customer id 3) national id 4) date and place of birth is required ",
         "Date of birth must be in the past ",
         "Invalid country code ",
         "Legal person needs either geographic address, customer number or national identification ",
         "Legal person must have a legal name id ",
         "Natural person must have a legal name id ",
         "Legal person must have a 'RAID', 'MISC', 'LEIX' or 'TXID' identification ",
         "Either 1) address line or 2) street name and either building name or building number are required ",
         "Legal person must not have a country of issue ",
         "Legal person must specify registration authority for non-'LEIX' identification ",
         "Legal person must not specify registration authority for 'LEIX' identification ",
         "Provided registration authority is not on the GLEIF list ",
         "Invalid LEI: lei::Error "}
    IN  \E h \in MessageHeads : text = h \o suffix

\* res.unwrap_err().to_string().ends_with("(IVMS101 C{code})")
match_validation_error(r, code) ==
    ~r.ok /\ ends_with(r.msg, "(IVMS101 C" \o ToString(code) \o ")")

-----------------------------------------------------------------------------
(* Address *)

Address_mock ==
    [address_type |-> "GEOG",
     department |-> None,
     sub_department |-> None,
     street_name |-> None,
     building_number |-> None,
     building_name |-> None,
     floor |-> None,
     post_box |-> None,
     room |-> None,
     post_code |-> None,
     town_name |-> "Zurich",
     town_location_name |-> None,
     district_name |-> None,
     country_sub_division |-> None,
     address_line |-> ZeroToN_from_option(Some("Main street")),
     country |-> [inner |-> "CH"]]

\* the mutant is satisfied by a street name alone
Address_validate_street_only(self) ==
    IF ZeroToN_is_empty(self.address_line) /\ is_none(self.street_name)
    THEN Err("Either 1) address line or 2) street name and either building name or building number are required (IVMS101 C8)")
    ELSE Ok

Address_validate(self) ==
    IF /\ ZeroToN_is_empty(self.address_line)
       /\ \/ is_none(self.street_name)
          \/ (is_none(self.building_name) /\ is_none(self.building_number))
    THEN Err("Either 1) address line or 2) street name and either building name or building number are required (IVMS101 C8)")
    ELSE Ok

\* the addresses drawn for Address.validate()
Addresses ==
    {[Address_mock EXCEPT !.address_type = ty,
                          !.street_name = st,
                          !.building_number = bnum,
                          !.building_name = bname,
                          !.address_line = al,
                          !.country = cc] :
        ty \in AddressTypeCode,
        st \in {None, Some("main street")},
        bnum \in {None, Some("12")},
        bname \in {None, Some("main building")},
        al \in ZeroToNValues({"line 1"}, MaxList),
        cc \in {CountryCode_try_from(t).value :
                    t \in {u \in CountryTexts : CountryCode_try_from(u).ok}}}

-----------------------------------------------------------------------------
(* DateAndPlaceOfBirth *)

DateAndPlaceOfBirth_mock == [date_of_birth |-> 0, place_of_birth |-> "London"]

\* the mutant accepts a birth date equal to the current date
DateAndPlaceOfBirth_validate_today_ok(self, today) ==
    IF self.date_of_birth > today
    THEN Err("Date of birth must be in the past (IVMS101 C2)")
    ELSE Ok

\* today: the value of chrono::prelude::Utc::now().date_naive() read by the call
DateAndPlaceOfBirth_validate(self, today) ==
    IF self.date_of_birth >= today
    THEN Err("Date of birth must be in the past (IVMS101 C2)")
    ELSE Ok

-----------------------------------------------------------------------------
(* NaturalPersonName, LegalPersonName *)

NaturalPersonNameID_mock ==
    [primary_identifier |-> "Engels",
     secondary_identifier |-> Some("Friedrich"),
     name_identifier_type |-> "LEGL"]

NaturalPersonName_mock ==
    [name_identifier |-> One(NaturalPersonNameID_mock),
     local_name_identifier |-> ZeroToN_from_option(None),
     phonetic_name_identifier |-> ZeroToN_from_option(None)]

LegalPersonNameID_mock ==
    [legal_person_name |-> "Company A",
     legal_person_name_identifier_type |-> "LEGL"]

LegalPersonName_mock ==
    [name_identifier |-> One(LegalPersonNameID_mock),
     local_name_identifier |-> ZeroToN_from_option(None),
     phonetic_name_identifier |-> ZeroToN_from_option(None)]

\* the mutant looks at the first identifier only
NaturalPersonName_validate_first_only(self) ==
    IF OneToN_first(self.name_identifier).name_identifier_type # "LEGL"
    THEN Err("Natural person must have a legal name id (IVMS101 C6)")
    ELSE Ok

NaturalPersonName_validate(self) ==
    LET ids == OneToN_into_iter(self.name_identifier)
        has_legl == any([i \in 1..Len(ids) |-> ids[i].name_identifier_type = "LEGL"])
    IN  IF ~has_legl
        THEN Err("Natural person must have a legal name id (IVMS101 C6)")
        ELSE Ok

LegalPersonName_validate(self) ==
    LET ids == OneToN_into_iter(self.name_identifier)
        has_legl == any([i \in 1..Len(ids) |->
                            ids[i].legal_person_name_identifier_type = "LEGL"])
    IN  IF ~has_legl
        THEN Err("Legal person must have a legal name id (IVMS101 C5)")
        ELSE Ok

-----------------------------------------------------------------------------
(* The outcome of an operation *)

NoResult == [op |-> "none", unit |-> "", out |-> Ok, utc |-> None]
Called(op, unit, out, utc) == [op |-> op, unit |-> unit, out |-> out, utc |-> utc]

Validated(ty) == subject.ty = ty /\ res.op = "validate"

\* nothing has been encoded or received
NoWire == [ty |-> "none", val |-> <<>>]

-----------------------------------------------------------------------------
(* country_codes.rs: country() and the table COUNTRY_CODES, a              *)
(* std::sync::OnceLock.  get_or_init lets exactly one caller run the        *)
(* closure; callers that find the cell being initialized block until the    *)
(* value is stored.  The closure builds the table entry by entry in a       *)
(* value of its own and the cell receives the finished table.               *)

\* the first entries of the array of the closure
COUNTRY_CODES_init ==
    << <<"af", "Afghanistan">>, <<"ax", "Aland Islands">> >>

\* static COUNTRY_CODES = OnceLock::new(), and no call of country() under way
ProcessStart ==
    /\ COUNTRY_CODES = [state |-> "incomplete", value |-> {}, inits |-> 0]
    /\ threads = [t \in 1..MaxThreads |->
                    [pc |-> "idle", code |-> "", local |-> {}, path |-> "",
                     seen |-> {}, ret |-> ""]]

\* the codes that country() is called with; "zz" is not in the table
InitCountry ==
    /\ ProcessStart
    /\ now = 1
    /\ res = NoResult
    /\ wire = NoWire
    /\ subject = [ty |-> "country codes", val |-> {"af", "ax", "zz"}]

\* a thread enters country(country_code)
Country ==
    /\ subject.ty = "country codes"
    /\ \E t \in DOMAIN threads, code \in subject.val :
        /\ threads[t].pc = "idle"
        /\ threads' = [threads EXCEPT ![t] =
                        [pc |-> "get_or_init", code |-> code, local |-> {},
                         path |-> "", seen |-> {}, ret |-> ""]]
    /\ UNCHANGED <<subject, res, now, wire, COUNTRY_CODES>>

\* the mutant starts the closure whenever no value is stored yet
GetOrInitBegin_unguarded ==
    /\ \E t \in DOMAIN threads :
        /\ threads[t].pc = "get_or_init"
        /\ COUNTRY_CODES.state # "complete"
        /\ COUNTRY_CODES' = [COUNTRY_CODES EXCEPT !.state = "running",
                                                  !.inits = @ + 1]
        /\ threads' = [threads EXCEPT ![t].pc = "closure", ![t].path = "init"]
    /\ UNCHANGED <<subject, res, now, wire>>

\* get_or_init on an empty cell: the caller becomes the initializer
GetOrInitBegin ==
    /\ \E t \in DOMAIN threads :
        /\ threads[t].pc = "get_or_init"
        /\ COUNTRY_CODES.state = "incomplete"
        /\ COUNTRY_CODES' = [COUNTRY_CODES EXCEPT !.state = "running",
                                                  !.inits = @ + 1]
        /\ threads' = [threads EXCEPT ![t].pc = "closure", ![t].path = "init"]
    /\ UNCHANGED <<subject, res, now, wire>>

\* get_or_init on a cell that another caller initializes: the caller waits
GetOrInitWait ==
    /\ \E t \in DOMAIN threads :
        /\ threads[t].pc = "get_or_init"
        /\ COUNTRY_CODES.state = "running"
        /\ threads' = [threads EXCEPT ![t].pc = "wait", ![t].path = "wait"]
    /\ UNCHANGED <<subject, res, now, wire, COUNTRY_CODES>>

\* the closure: the next entry of the array goes into the map under
\* construction; the finished map is stored and the cell completes
Closure ==
    /\ \E t \in DOMAIN threads :
        /\ threads[t].pc = "closure"
        /\ LET n == Cardinality(threads[t].local)
           IN  IF n < Len(COUNTRY_CODES_init)
               THEN /\ threads' = [threads EXCEPT ![t].local =
                                        @ \cup {COUNTRY_CODES_init[n + 1]}]
                    /\ UNCHANGED COUNTRY_CODES
               ELSE /\ COUNTRY_CODES' = [COUNTRY_CODES EXCEPT
                                            !.state = "complete",
                                            !.value = threads[t].local]
                    /\ threads' = [threads EXCEPT ![t].pc = "get"]
    /\ UNCHANGED <<subject, res, now, wire>>

\* .get(country_code).copied().unwrap_or(country_code) on the stored table,
\* by the initializer, by a caller that waited or by one that found the
\* cell complete
Get ==
    /\ \E t \in DOMAIN threads :
        /\ threads[t].pc \in {"get", "wait", "get_or_init"}
        /\ COUNTRY_CODES.state = "complete"
        /\ LET table == COUNTRY_CODES.value
               code == threads[t].code
           IN  threads' = [threads EXCEPT
                    ![t].pc = "idle",
                    ![t].path = IF @ = "" THEN "fast" ELSE @,
                    ![t].seen = table,
                    ![t].ret = IF \E e \in table : e[1] = code
                               THEN (CHOOSE e \in table : e[1] = code)[2]
                               ELSE code]
    /\ UNCHANGED <<subject, res, now, wire, COUNTRY_CODES>>

NextCountry ==
    \/ Country
    \/ GetOrInitBegin
    \/ GetOrInitWait
    \/ Closure
    \/ Get

SpecCountry == InitCountry /\ [][NextCountry]_vars

-----------------------------------------------------------------------------
(* Leaf entities: constrained codes, date of birth, address, names *)

\* the leaf values drawn for try_from, validate() and the wire
InitLeaf ==
    LET RegistrationAuthorityTexts ==
            {"RA000001", "RA000094", "RA100094", "RA00009", "RA0000945"}
    IN
    LET
        \* the names drawn for LegalPersonName.validate()
        LegalPersonNames ==
            LET LegalPersonNameIDs ==
                    {[LegalPersonNameID_mock EXCEPT !.legal_person_name_identifier_type = t] :
                        t \in LegalPersonNameTypeCode}
            IN
            {[name_identifier |-> ni,
              local_name_identifier |-> ZeroToN_from_option(loc),
              phonetic_name_identifier |-> ZeroToN_from_option(pho)] :
                ni \in OneToNValues(LegalPersonNameIDs, MaxList),
                loc \in {None, Some(LegalPersonNameID_mock)},
                pho \in {None, Some(LegalPersonNameID_mock)}}
    IN
    LET
        \* the names drawn for NaturalPersonName.validate()
        NaturalPersonNames ==
            LET NaturalPersonNameIDs ==
                    {[NaturalPersonNameID_mock EXCEPT !.name_identifier_type = t] :
                        t \in NaturalPersonNameTypeCode}
            IN
            {[name_identifier |-> ni,
              local_name_identifier |-> ZeroToN_from_option(loc),
              phonetic_name_identifier |-> ZeroToN_from_option(pho)] :
                ni \in OneToNValues(NaturalPersonNameIDs, MaxList),
                loc \in {None, Some(NaturalPersonNameID_mock)},
                pho \in {None, Some(NaturalPersonNameID_mock)}}
    IN
    /\ now \in Days
    /\ res = NoResult
    /\ ProcessStart
    /\ \/ /\ subject \in {[ty |-> "constrained text",
                            val |-> [type |-> T, text |-> t]] :
                                T \in ConstrainedTypes, t \in ConstrainedTexts}
          /\ (wire = NoWire \/ wire = Str(subject.val.text))
       \/ /\ wire = NoWire
          /\ \/ subject \in {[ty |-> "CountryCode text", val |-> t] : t \in CountryTexts}
             \/ subject \in {[ty |-> "RegistrationAuthority text", val |-> t] :
                                t \in RegistrationAuthorityTexts}
             \/ subject \in {[ty |-> "DateAndPlaceOfBirth", val |-> d] :
                    d \in {[DateAndPlaceOfBirth_mock EXCEPT !.date_of_birth = day,
                                                             !.place_of_birth = p] :
                                day \in Days, p \in {"London", "Bern"}}}
             \/ subject \in {[ty |-> "Address", val |-> a] : a \in Addresses}
             \/ subject \in {[ty |-> "NaturalPersonName", val |-> n] : n \in NaturalPersonNames}
             \/ subject \in {[ty |-> "LegalPersonName", val |-> n] : n \in LegalPersonNames}

\* CountryCode::try_from(text): on success the subject becomes the code
CountryCodeTryFrom ==
    /\ subject.ty = "CountryCode text"
    /\ LET r == CountryCode_try_from(subject.val)
       IN  /\ res' = Called("try_from", "messages.rs", [ok |-> r.ok, msg |-> r.msg], None)
           /\ subject' = IF r.ok THEN [ty |-> "CountryCode", val |-> r.value]
                                 ELSE subject
    /\ UNCHANGED <<now, wire, COUNTRY_CODES, threads>>

\* RegistrationAuthority::try_from(text)
RegistrationAuthorityTryFrom ==
    /\ subject.ty = "RegistrationAuthority text"
    /\ LET r == RegistrationAuthority_try_from(subject.val)
       IN  /\ res' = Called("try_from", "messages.rs", [ok |-> r.ok, msg |-> r.msg], None)
           /\ subject' = IF r.ok THEN [ty |-> "RegistrationAuthority", val |-> r.value]
                                 ELSE subject
    /\ UNCHANGED <<now, wire, COUNTRY_CODES, threads>>

\* country_codes.rs: CountryCode::try_from(text)
LibCountryCodeTryFrom ==
    /\ subject.ty = "CountryCode text"
    /\ LET r == lib_CountryCode_try_from(subject.val)
       IN  /\ res' = Called("try_from", "country_codes.rs",
                            [ok |-> r.ok, msg |-> r.msg], None)
           /\ subject' = IF r.ok THEN [ty |-> "country_codes::CountryCode",
                                       val |-> r.value]
                                 ELSE subject
    /\ UNCHANGED <<now, wire, COUNTRY_CODES, threads>>

\* a text is handed to try_from of a constrained type; the text stays the
\* subject and the value built is kept in res.out
ConstrainedTryFrom ==
    /\ subject.ty = "constrained text"
    /\ res' = Called("try_from", "constrained_string.rs",
                     Constrained_try_from(subject.val.type, subject.val.text), None)
    /\ UNCHANGED <<subject, now, wire, COUNTRY_CODES, threads>>

\* the token on the wire is decoded into the constrained type
ConstrainedDeserialize ==
    /\ subject.ty = "constrained text"
    /\ wire.ty = "Str"
    /\ res' = Called("deserialize", "constrained_string.rs",
                     Constrained_deserialize(subject.val.type, wire), None)
    /\ UNCHANGED <<subject, now, wire, COUNTRY_CODES, threads>>

\* as_str() of the value built last
ConstrainedAsStr ==
    /\ subject.ty = "constrained text"
    /\ res.op \in {"try_from", "deserialize"}
    /\ res.out.ok
    /\ res' = Called("as_str", "constrained_string.rs",
                     [ok |-> TRUE, msg |-> "",
                      value |-> [inner |-> Constrained_as_str(res.out.value)]], None)
    /\ UNCHANGED <<subject, now, wire, COUNTRY_CODES, threads>>

\* the value built last is encoded
ConstrainedSerialize ==
    /\ subject.ty = "constrained text"
    /\ res.op \in {"try_from", "deserialize"}
    /\ res.out.ok
    /\ wire' = Constrained_serialize(res.out.value)
    /\ res' = Called("serialize", "constrained_string.rs",
                     [ok |-> TRUE, msg |-> "", value |-> res.out.value], None)
    /\ UNCHANGED <<subject, now, COUNTRY_CODES, threads>>

CountryCodeValidate ==
    /\ subject.ty = "CountryCode"
    /\ res' = Called("validate", "messages.rs", CountryCode_validate(subject.val), None)
    /\ UNCHANGED <<subject, now, wire, COUNTRY_CODES, threads>>

RegistrationAuthorityValidate ==
    /\ subject.ty = "RegistrationAuthority"
    /\ res' = Called("validate", "messages.rs",
                     RegistrationAuthority_validate(subject.val), None)
    /\ UNCHANGED <<subject, now, wire, COUNTRY_CODES, threads>>

\* the call reads the clock
DateAndPlaceOfBirthValidate ==
    /\ subject.ty = "DateAndPlaceOfBirth"
    /\ res' = Called("validate", "messages.rs",
                     DateAndPlaceOfBirth_validate(subject.val, now), Some(now))
    /\ UNCHANGED <<subject, now, wire, COUNTRY_CODES, threads>>

\* the mutant lets the outcome depend on the date of the call
AddressValidate_dated ==
    /\ subject.ty = "Address"
    /\ res' = Called("validate", "messages.rs",
                     IF now % 2 = 1 THEN Ok ELSE Address_validate(subject.val), None)
    /\ UNCHANGED <<subject, now, wire, COUNTRY_CODES, threads>>

AddressValidate ==
    /\ subject.ty = "Address"
    /\ res' = Called("validate", "messages.rs", Address_validate(subject.val), None)
    /\ UNCHANGED <<subject, now, wire, COUNTRY_CODES, threads>>

NaturalPersonNameValidate ==
    /\ subject.ty = "NaturalPersonName"
    /\ res' = Called("validate", "messages.rs",
                     NaturalPersonName_validate(subject.val), None)
    /\ UNCHANGED <<subject, now, wire, COUNTRY_CODES, threads>>

LegalPersonNameValidate ==
    /\ subject.ty = "LegalPersonName"
    /\ res' = Called("validate", "messages.rs",
                     LegalPersonName_validate(subject.val), None)
    /\ UNCHANGED <<subject, now, wire, COUNTRY_CODES, threads>>

\* a day passes
Tick ==
    /\ now < MaxDay
    /\ now' = now + 1
    /\ UNCHANGED <<subject, res, wire, COUNTRY_CODES, threads>>

NextLeaf ==
    \/ CountryCodeTryFrom
    \/ LibCountryCodeTryFrom
    \/ RegistrationAuthorityTryFrom
    \/ ConstrainedTryFrom
    \/ ConstrainedDeserialize
    \/ ConstrainedAsStr
    \/ ConstrainedSerialize
    \/ CountryCodeValidate
    \/ RegistrationAuthorityValidate
    \/ DateAndPlaceOfBirthValidate
    \/ AddressValidate
    \/ NaturalPersonNameValidate
    \/ LegalPersonNameValidate
    \/ Tick

Spec == InitLeaf /\ [][NextLeaf]_vars

-----------------------------------------------------------------------------
(* NationalIdentification *)

NationalIdentification_mock ==
    [national_identifier |-> "id",
     national_identifier_type |-> "MISC",
     country_of_issue |-> None,
     registration_authority |-> Some([inner |-> "RA000001"])]

NationalIdentification_validate(self) ==
    IF is_some(self.registration_authority)
    THEN RegistrationAuthority_validate(self.registration_authority[1])
    ELSE Ok

-----------------------------------------------------------------------------
(* The body of a validate(): steps that return early on the first error *)

early_return(steps) == try_for_each(steps)

-----------------------------------------------------------------------------
(* NaturalPerson *)

NaturalPerson_mock ==
    [name |-> One(NaturalPersonName_mock),
     geographic_address |-> ZeroToN_from_option(None),
     national_identification |-> None,
     customer_identification |-> None,
     date_and_place_of_birth |-> None,
     country_of_residence |-> None]

\* the mutant validates the first name of the person only
NaturalPerson_validate_first_name_only(self) ==
    LET addrs == ZeroToN_into_iter(self.geographic_address)
    IN  early_return(<<
            NaturalPersonName_validate(OneToN_first(self.name)),
            try_for_each([i \in 1..Len(addrs) |-> Address_validate(addrs[i])]) >>)

NaturalPerson_validate(self) ==
    LET names == OneToN_into_iter(self.name)
        addrs == ZeroToN_into_iter(self.geographic_address)
    IN  early_return(<<
            try_for_each([i \in 1..Len(names) |-> NaturalPersonName_validate(names[i])]),
            try_for_each([i \in 1..Len(addrs) |-> Address_validate(addrs[i])]) >>)

-----------------------------------------------------------------------------
(* LegalPerson *)

LegalPerson_mock ==
    [name |-> LegalPersonName_mock,
     geographic_address |-> ZeroToN_from_option(None),
     customer_identification |-> None,
     national_identification |-> None,
     country_of_registration |-> None]

\* messages.rs: an address of type GEOG counts
LegalPerson_check_C4(self) ==
    LET addrs == ZeroToN_into_iter(self.geographic_address)
        has_geog == any([i \in 1..Len(addrs) |-> addrs[i].address_type = "GEOG"])
    IN  IF /\ ~has_geog
           /\ is_none(self.national_identification)
           /\ is_none(self.customer_identification)
        THEN Err("Legal person needs either geographic address, customer number or national identification (IVMS101 C4)")
        ELSE Ok

\* lib.rs: has_geog compares with AddressTypeCode::Residential, the code "HOME"
lib_LegalPerson_check_C4(self) ==
    LET addrs == ZeroToN_into_iter(self.geographic_address)
        has_geog == any([i \in 1..Len(addrs) |-> addrs[i].address_type = "HOME"])
    IN  IF /\ ~has_geog
           /\ is_none(self.national_identification)
           /\ is_none(self.customer_identification)
        THEN Err("Legal person needs either geographic address, customer number or national identification (IVMS101 C4)")
        ELSE Ok

\* the mutant forgets TXID in the list of accepted types
LegalPerson_check_C7_no_txid(self) ==
    IF /\ is_some(self.national_identification)
       /\ self.national_identification[1].national_identifier_type
            \notin {"RAID", "MISC", "LEIX"}
    THEN Err("Legal person must have a 'RAID', 'MISC', 'LEIX' or 'TXID' identification (IVMS101 C7)")
    ELSE Ok

LegalPerson_check_C7(self) ==
    IF /\ is_some(self.national_identification)
       /\ self.national_identification[1].national_identifier_type
            \notin {"RAID", "MISC", "LEIX", "TXID"}
    THEN Err("Legal person must have a 'RAID', 'MISC', 'LEIX' or 'TXID' identification (IVMS101 C7)")
    ELSE Ok

\* the mutant checks the LEI of every identification, whatever its type
LegalPerson_check_C11_any_type(self) ==
    IF /\ is_some(self.national_identification)
       /\ ~LEI_try_from(self.national_identification[1].national_identifier)
    THEN Err("Invalid LEI: lei::Error (IVMS101 C11)")
    ELSE Ok

LegalPerson_check_C11(self) ==
    IF /\ is_some(self.national_identification)
       /\ self.national_identification[1].national_identifier_type = "LEIX"
       /\ ~LEI_try_from(self.national_identification[1].national_identifier)
    THEN Err("Invalid LEI: lei::Error (IVMS101 C11)")
    ELSE Ok

\* the mutant does not reject a registration authority given with LEIX
LegalPerson_check_C9_leix_with_ra(self) ==
    IF is_none(self.national_identification)
    THEN Ok
    ELSE LET ni == self.national_identification[1]
         IN  IF is_some(ni.country_of_issue)
             THEN Err("Legal person must not have a country of issue (IVMS101 C9)")
             ELSE IF /\ ni.national_identifier_type # "LEIX"
                     /\ is_none(ni.registration_authority)
             THEN Err("Legal person must specify registration authority for non-'LEIX' identification (IVMS101 C9)")
             ELSE Ok

LegalPerson_check_C9(self) ==
    IF is_none(self.national_identification)
    THEN Ok
    ELSE LET ni == self.national_identification[1]
         IN  IF is_some(ni.country_of_issue)
             THEN Err("Legal person must not have a country of issue (IVMS101 C9)")
             ELSE IF /\ ni.national_identifier_type # "LEIX"
                     /\ is_none(ni.registration_authority)
             THEN Err("Legal person must specify registration authority for non-'LEIX' identification (IVMS101 C9)")
             ELSE IF /\ ni.national_identifier_type = "LEIX"
                     /\ is_some(ni.registration_authority)
             THEN Err("Legal person must not specify registration authority for 'LEIX' identification (IVMS101 C9)")
             ELSE Ok

LegalPerson_validate(self) ==
    LET addrs == ZeroToN_into_iter(self.geographic_address)
    IN  early_return(<<
            LegalPerson_check_C4(self),
            LegalPerson_check_C7(self),
            LegalPerson_check_C11(self),
            LegalPersonName_validate(self.name),
            try_for_each([i \in 1..Len(addrs) |-> Address_validate(addrs[i])]),
            LegalPerson_check_C9(self) >>)

lib_LegalPerson_validate(self) ==
    LET addrs == ZeroToN_into_iter(self.geographic_address)
    IN  early_return(<<
            lib_LegalPerson_check_C4(self),
            LegalPerson_check_C7(self),
            LegalPerson_check_C11(self),
            LegalPersonName_validate(self.name),
            try_for_each([i \in 1..Len(addrs) |-> Address_validate(addrs[i])]),
            LegalPerson_check_C9(self) >>)

-----------------------------------------------------------------------------
(* The persons drawn for NaturalPerson.validate() and LegalPerson.validate() *)

\* an address that violates rule C8: no line, no street
Address_no_line == [Address_mock EXCEPT !.address_line = ZeroToN_from_option(None)]

\* one valid address of each type and an invalid one
PersonAddresses ==
    {[Address_mock EXCEPT !.address_type = ty] : ty \in AddressTypeCode}
        \cup {[Address_no_line EXCEPT !.address_type = "BIZZ"]}

NaturalPersonName_alias ==
    [NaturalPersonName_mock EXCEPT
        !.name_identifier =
            One([NaturalPersonNameID_mock EXCEPT !.name_identifier_type = "ALIA"])]

-----------------------------------------------------------------------------
(* Persons: NaturalPerson.validate(), LegalPerson.validate() *)

InitPerson ==
    LET LegalPersons ==
            LET NationalIdentifications ==
                    {[national_identifier |-> id,
                      national_identifier_type |-> ty,
                      country_of_issue |-> coi,
                      registration_authority |-> ra] :
                        id \in {"id", "invalid-lei", "2594007XIACKNMUAW223"},
                        ty \in NationalIdentifierTypeCode,
                        coi \in {None, Some([inner |-> "CH"])},
                        ra \in {None, Some([inner |-> "RA000001"]), Some([inner |-> "RA100094"])}}
            IN
            {[name |-> [LegalPersonName_mock EXCEPT !.name_identifier = ni],
              geographic_address |-> ga,
              customer_identification |-> cid,
              national_identification |-> nid,
              country_of_registration |-> None] :
                ni \in {One(LegalPersonNameID_mock),
                        One([LegalPersonNameID_mock EXCEPT
                                !.legal_person_name_identifier_type = "SHRT"]),
                        N(<<[LegalPersonNameID_mock EXCEPT
                                !.legal_person_name_identifier_type = "TRAD"],
                            LegalPersonNameID_mock>>)},
                ga \in ZeroToNValues(PersonAddresses, MaxAddrs),
                cid \in {None, Some("id")},
                nid \in {None} \cup {Some(x) : x \in NationalIdentifications}}
    IN
    LET NaturalPersons ==
            {[name |-> nm,
              geographic_address |-> ga,
              national_identification |-> nid,
              customer_identification |-> cid,
              date_and_place_of_birth |-> dob,
              country_of_residence |-> cor] :
                nm \in OneToNValues({NaturalPersonName_mock, NaturalPersonName_alias}, MaxList),
                ga \in ZeroToNValues({Address_mock, Address_no_line}, MaxAddrs),
                nid \in {None} \cup
                        {Some([NationalIdentification_mock EXCEPT !.national_identifier_type = ty]) :
                            ty \in NationalIdentifierTypeCode},
                cid \in {None, Some("customer-id")},
                dob \in {None, Some(DateAndPlaceOfBirth_mock),
                         Some([DateAndPlaceOfBirth_mock EXCEPT !.date_of_birth = MaxDay])},
                cor \in {None, Some([inner |-> "RR"])}}
    IN
    /\ now = 1
    /\ res = NoResult
    /\ ProcessStart
    /\ wire = NoWire
    /\ \/ subject \in {[ty |-> "NaturalPerson", val |-> p] : p \in NaturalPersons}
       \/ subject \in {[ty |-> "LegalPerson", val |-> p] : p \in LegalPersons}

\* the same code in messages.rs and lib.rs
NaturalPersonValidate ==
    /\ subject.ty = "NaturalPerson"
    /\ \E unit \in {"messages.rs", "lib.rs"} :
        res' = Called("validate", unit, NaturalPerson_validate(subject.val), None)
    /\ UNCHANGED <<subject, now, wire, COUNTRY_CODES, threads>>

LegalPersonValidate ==
    /\ subject.ty = "LegalPerson"
    /\ res' = Called("validate", "messages.rs", LegalPerson_validate(subject.val), None)
    /\ UNCHANGED <<subject, now, wire, COUNTRY_CODES, threads>>

LibLegalPersonValidate ==
    /\ subject.ty = "LegalPerson"
    /\ res' = Called("validate", "lib.rs", lib_LegalPerson_validate(subject.val), None)
    /\ UNCHANGED <<subject, now, wire, COUNTRY_CODES, threads>>

NextPerson ==
    \/ NaturalPersonValidate
    \/ LegalPersonValidate
    \/ LibLegalPersonValidate

SpecPerson == InitPerson /\ [][NextPerson]_vars

-----------------------------------------------------------------------------
(* Person, Originator *)

Person_NaturalPerson(p) == [variant |-> "NaturalPerson", natural |-> <<p>>, legal |-> <<>>]
Person_LegalPerson(p) == [variant |-> "LegalPerson", natural |-> <<>>, legal |-> <<p>>]

Person_validate(self) ==
    IF self.variant = "NaturalPerson"
    THEN NaturalPerson_validate(self.natural[1])
    ELSE LegalPerson_validate(self.legal[1])

lib_Person_validate(self) ==
    IF self.variant = "NaturalPerson"
    THEN NaturalPerson_validate(self.natural[1])
    ELSE lib_LegalPerson_validate(self.legal[1])

\* the mutant does not count a date and place of birth
Originator_check_C1_no_birth(person) ==
    IF /\ person.variant = "NaturalPerson"
       /\ ZeroToN_is_empty(person.natural[1].geographic_address)
       /\ is_none(person.natural[1].customer_identification)
       /\ is_none(person.natural[1].national_identification)
    THEN Err("Natural person: one of 1) geographic address 2) customer id 3) national id 4) date and place of birth is required (IVMS101 C1)")
    ELSE Ok

\* the test made on each person before person.validate()
Originator_check_C1(person) ==
    IF /\ person.variant = "NaturalPerson"
       /\ ZeroToN_is_empty(person.natural[1].geographic_address)
       /\ is_none(person.natural[1].customer_identification)
       /\ is_none(person.natural[1].national_identification)
       /\ is_none(person.natural[1].date_and_place_of_birth)
    THEN Err("Natural person: one of 1) geographic address 2) customer id 3) national id 4) date and place of birth is required (IVMS101 C1)")
    ELSE Ok

Originator_validate(self) ==
    LET persons == OneToN_into_iter(self.originator_persons)
    IN  try_for_each([i \in 1..Len(persons) |->
            early_return(<<Originator_check_C1(persons[i]),
                           Person_validate(persons[i])>>)])

lib_Originator_validate(self) ==
    LET persons == OneToN_into_iter(self.originator_persons)
    IN  try_for_each([i \in 1..Len(persons) |->
            early_return(<<Originator_check_C1(persons[i]),
                           lib_Person_validate(persons[i])>>)])

\* the persons drawn for an originator.  Natural persons: every combination
\* of the four items of rule C1 absent or present (the address list absent
\* or empty), one address valid or not, and a name without LEGL identifier.
\* Legal persons: without anything, with a customer id, with one address,
\* and with a LEGL identifier that follows one of another type and name.
OriginatorPersons ==
    LET OriginatorNaturalPersons ==
            {[NaturalPerson_mock EXCEPT !.geographic_address = ga,
                                        !.customer_identification = cid,
                                        !.national_identification = nid,
                                        !.date_and_place_of_birth = dob] :
                ga \in {ZNone, N(<<>>)},
                cid \in {None, Some("customer-id")},
                nid \in {None, Some(NationalIdentification_mock)},
                dob \in {None, Some(DateAndPlaceOfBirth_mock)}}
            \cup
            {[NaturalPerson_mock EXCEPT !.geographic_address = One(a)] :
                a \in {Address_mock, Address_no_line}}
            \cup
            {[NaturalPerson_mock EXCEPT !.name = One(NaturalPersonName_alias),
                                        !.customer_identification = Some("customer-id")]}
        OriginatorLegalPersons ==
            {LegalPerson_mock,
             [LegalPerson_mock EXCEPT !.customer_identification = Some("id")],
             [LegalPerson_mock EXCEPT
                !.customer_identification = Some("id"),
                !.name.name_identifier =
                    N(<<[legal_person_name |-> "Trading A",
                         legal_person_name_identifier_type |-> "TRAD"],
                        LegalPersonNameID_mock>>)]}
            \cup
            {[LegalPerson_mock EXCEPT !.geographic_address = One(a)] :
                a \in PersonAddresses}
    IN  {Person_NaturalPerson(p) : p \in OriginatorNaturalPersons}
            \cup {Person_LegalPerson(p) : p \in OriginatorLegalPersons}

InitOriginator ==
    /\ now = 1
    /\ res = NoResult
    /\ ProcessStart
    /\ wire = NoWire
    /\ subject \in
            {[ty |-> "Originator",
              val |-> [originator_persons |-> ps,
                       account_number |-> ZeroToN_from_option(None)]] :
                ps \in OneToNValues(OriginatorPersons, MaxPersons)}

OriginatorValidate ==
    /\ subject.ty = "Originator"
    /\ res' = Called("validate", "messages.rs", Originator_validate(subject.val), None)
    /\ UNCHANGED <<subject, now, wire, COUNTRY_CODES, threads>>

LibOriginatorValidate ==
    /\ subject.ty = "Originator"
    /\ res' = Called("validate", "lib.rs", lib_Originator_validate(subject.val), None)
    /\ UNCHANGED <<subject, now, wire, COUNTRY_CODES, threads>>

NextOriginator ==
    \/ OriginatorValidate
    \/ LibOriginatorValidate

SpecOriginator == InitOriginator /\ [][NextOriginator]_vars

-----------------------------------------------------------------------------
(* Beneficiary, OriginatingVASP, BeneficiaryVASP, IVMS101 *)

\* the mutant makes the test of rule C1 on each person, as Originator does
Beneficiary_validate_with_C1(self) ==
    LET persons == OneToN_into_iter(self.beneficiary_persons)
    IN  try_for_each([i \in 1..Len(persons) |->
            early_return(<< Originator_check_C1(persons[i]),
                            Person_validate(persons[i]) >>)])

Beneficiary_validate(self) ==
    LET persons == OneToN_into_iter(self.beneficiary_persons)
    IN  try_for_each([i \in 1..Len(persons) |-> Person_validate(persons[i])])

lib_Beneficiary_validate(self) ==
    LET persons == OneToN_into_iter(self.beneficiary_persons)
    IN  try_for_each([i \in 1..Len(persons) |-> lib_Person_validate(persons[i])])

OriginatingVASP_validate(self) == Person_validate(self.originating_vasp)

lib_OriginatingVASP_validate(self) == lib_Person_validate(self.originating_vasp)

BeneficiaryVASP_validate(self) ==
    IF is_none(self.beneficiary_vasp)
    THEN Ok
    ELSE Person_validate(self.beneficiary_vasp[1])

lib_BeneficiaryVASP_validate(self) ==
    IF is_none(self.beneficiary_vasp)
    THEN Ok
    ELSE lib_Person_validate(self.beneficiary_vasp[1])

\* the mutant validates the beneficiary before the originator
IVMS101_validate_beneficiary_first(self) ==
    early_return(<<
        IF is_some(self.beneficiary)
            THEN Beneficiary_validate(self.beneficiary[1]) ELSE Ok,
        IF is_some(self.originator)
            THEN Originator_validate(self.originator[1]) ELSE Ok,
        IF is_some(self.originating_vasp)
            THEN OriginatingVASP_validate(self.originating_vasp[1]) ELSE Ok,
        IF is_some(self.beneficiary_vasp)
            THEN BeneficiaryVASP_validate(self.beneficiary_vasp[1]) ELSE Ok >>)

IVMS101_validate(self) ==
    early_return(<<
        IF is_some(self.originator)
            THEN Originator_validate(self.originator[1]) ELSE Ok,
        IF is_some(self.beneficiary)
            THEN Beneficiary_validate(self.beneficiary[1]) ELSE Ok,
        IF is_some(self.originating_vasp)
            THEN OriginatingVASP_validate(self.originating_vasp[1]) ELSE Ok,
        IF is_some(self.beneficiary_vasp)
            THEN BeneficiaryVASP_validate(self.beneficiary_vasp[1]) ELSE Ok >>)

lib_IVMS101_validate(self) ==
    early_return(<<
        IF is_some(self.originator)
            THEN lib_Originator_validate(self.originator[1]) ELSE Ok,
        IF is_some(self.beneficiary)
            THEN lib_Beneficiary_validate(self.beneficiary[1]) ELSE Ok,
        IF is_some(self.originating_vasp)
            THEN lib_OriginatingVASP_validate(self.originating_vasp[1]) ELSE Ok,
        IF is_some(self.beneficiary_vasp)
            THEN lib_BeneficiaryVASP_validate(self.beneficiary_vasp[1]) ELSE Ok >>)

\* the legal person built by OriginatingVASP::new(name, lei)
OriginatingVASP_new(name, lei) ==
    [originating_vasp |->
        Person_LegalPerson(
            [name |-> [name_identifier |->
                           One([legal_person_name |-> name,
                                legal_person_name_identifier_type |-> "LEGL"]),
                       local_name_identifier |-> ZeroToN_from_option(None),
                       phonetic_name_identifier |-> ZeroToN_from_option(None)],
             geographic_address |-> ZNone,
             customer_identification |-> None,
             national_identification |->
                Some([national_identifier |-> lei,
                      national_identifier_type |-> "LEIX",
                      country_of_issue |-> None,
                      registration_authority |-> None]),
             country_of_registration |-> None])]

InitMessage ==
    LET
        \* the messages drawn: each part absent or one of a few values
        Messages ==
            LET \* the persons of the messages drawn: a natural person with a customer id, one
                \* without any of the four items of rule C1, one without a legal name
                MessageNaturalPersons ==
                    {Person_NaturalPerson([NaturalPerson_mock EXCEPT
                                                !.customer_identification = Some("customer-id")]),
                     Person_NaturalPerson(NaturalPerson_mock),
                     Person_NaturalPerson([NaturalPerson_mock EXCEPT
                                                !.name = One(NaturalPersonName_alias),
                                                !.customer_identification = Some("customer-id")])}

                \* a legal person with a customer id whose only name is a short name
                LegalPerson_short_name ==
                    [LegalPerson_mock EXCEPT
                        !.name.name_identifier =
                            One([LegalPersonNameID_mock EXCEPT
                                    !.legal_person_name_identifier_type = "SHRT"]),
                        !.customer_identification = Some("id")]

                MessageOriginators ==
                    {[originator_persons |-> ps, account_number |-> ZeroToN_from_option(None)] :
                        ps \in OneToNValues(MessageNaturalPersons, MaxPersons)}

                MessageBeneficiaries ==
                    {[beneficiary_persons |-> ps, account_number |-> ZeroToN_from_option(None)] :
                        ps \in OneToNValues(MessageNaturalPersons, MaxPersons)}

                MessageOriginatingVASPs ==
                    {OriginatingVASP_new("Company A", "2594007XIACKNMUAW223"),
                     OriginatingVASP_new("Company A", "invalid-lei"),
                     [originating_vasp |-> Person_LegalPerson(LegalPerson_mock)]}

                MessageBeneficiaryVASPs ==
                    {[beneficiary_vasp |-> None],
                     [beneficiary_vasp |->
                        Some(OriginatingVASP_new("Company A", "2594007XIACKNMUAW223").originating_vasp)],
                     [beneficiary_vasp |-> Some(Person_LegalPerson(LegalPerson_short_name))]}
            IN
            {[originator |-> o, beneficiary |-> b,
              originating_vasp |-> ov, beneficiary_vasp |-> bv] :
                o \in {None} \cup {Some(x) : x \in MessageOriginators},
                b \in {None} \cup {Some(x) : x \in MessageBeneficiaries},
                ov \in {None} \cup {Some(x) : x \in MessageOriginatingVASPs},
                bv \in {None} \cup {Some(x) : x \in MessageBeneficiaryVASPs}}
    IN
    /\ now = 1
    /\ res = NoResult
    /\ ProcessStart
    /\ wire = NoWire
    /\ subject \in {[ty |-> "IVMS101", val |-> m] : m \in Messages}

IVMS101Validate ==
    /\ subject.ty = "IVMS101"
    /\ res' = Called("validate", "messages.rs", IVMS101_validate(subject.val), None)
    /\ UNCHANGED <<subject, now, wire, COUNTRY_CODES, threads>>

LibIVMS101Validate ==
    /\ subject.ty = "IVMS101"
    /\ res' = Called("validate", "lib.rs", lib_IVMS101_validate(subject.val), None)
    /\ UNCHANGED <<subject, now, wire, COUNTRY_CODES, threads>>

NextMessage ==
    \/ IVMS101Validate
    \/ LibIVMS101Validate

SpecMessage == InitMessage /\ [][NextMessage]_vars

-----------------------------------------------------------------------------
(* Builders and accessors of persons, IntermediaryVASP *)

\* the mutant takes the first name for the primary identifier
NaturalPerson_new_names_swapped(first_name, last_name, customer_identification, address) ==
    LET last == Constrained_try_from("StringMax100", last_name)
        first == Constrained_try_from("StringMax100", first_name)
        cid == IF is_none(customer_identification)
               THEN [ok |-> TRUE, msg |-> "", value |-> [inner |-> ""]]
               ELSE Constrained_try_from("StringMax50", customer_identification[1])
    IN  IF ~last.ok THEN [ok |-> FALSE, msg |-> last.msg, value |-> None]
        ELSE IF ~first.ok THEN [ok |-> FALSE, msg |-> first.msg, value |-> None]
        ELSE IF ~cid.ok THEN [ok |-> FALSE, msg |-> cid.msg, value |-> None]
        ELSE [ok |-> TRUE, msg |-> "",
              value |-> Some(
                [name |-> One(
                    [name_identifier |-> One(
                        [primary_identifier |-> first.value.inner,
                         secondary_identifier |-> Some(last.value.inner),
                         name_identifier_type |-> "LEGL"]),
                     local_name_identifier |-> ZeroToN_from_option(None),
                     phonetic_name_identifier |-> ZeroToN_from_option(None)]),
                 geographic_address |-> ZeroToN_from_option(address),
                 national_identification |-> None,
                 customer_identification |->
                    IF is_none(customer_identification)
                    THEN None ELSE Some(cid.value.inner),
                 date_and_place_of_birth |-> None,
                 country_of_residence |-> None])]

\* NaturalPerson::new: each `?` returns the error of its conversion; value is
\* the person of Ok(..), None stands for Err(..)
NaturalPerson_new(first_name, last_name, customer_identification, address) ==
    LET last == Constrained_try_from("StringMax100", last_name)
        first == Constrained_try_from("StringMax100", first_name)
        cid == IF is_none(customer_identification)
               THEN [ok |-> TRUE, msg |-> "", value |-> [inner |-> ""]]
               ELSE Constrained_try_from("StringMax50", customer_identification[1])
    IN  IF ~last.ok THEN [ok |-> FALSE, msg |-> last.msg, value |-> None]
        ELSE IF ~first.ok THEN [ok |-> FALSE, msg |-> first.msg, value |-> None]
        ELSE IF ~cid.ok THEN [ok |-> FALSE, msg |-> cid.msg, value |-> None]
        ELSE [ok |-> TRUE, msg |-> "",
              value |-> Some(
                [name |-> One(
                    [name_identifier |-> One(
                        [primary_identifier |-> last.value.inner,
                         secondary_identifier |-> Some(first.value.inner),
                         name_identifier_type |-> "LEGL"]),
                     local_name_identifier |-> ZeroToN_from_option(None),
                     phonetic_name_identifier |-> ZeroToN_from_option(None)]),
                 geographic_address |-> ZeroToN_from_option(address),
                 national_identification |-> None,
                 customer_identification |->
                    IF is_none(customer_identification)
                    THEN None ELSE Some(cid.value.inner),
                 date_and_place_of_birth |-> None,
                 country_of_residence |-> None])]

\* NaturalPerson::first_name: `secondary_identifier?` returns None early
NaturalPerson_first_name(self) ==
    LET id == OneToN_first(OneToN_first(self.name).name_identifier)
    IN  IF is_none(id.secondary_identifier)
        THEN None
        ELSE Some(id.secondary_identifier[1])

NaturalPerson_last_name(self) ==
    OneToN_first(OneToN_first(self.name).name_identifier).primary_identifier

\* the mutant builds the identification with the type MISC
LegalPerson_new_misc(name, customer_identification, address, lei) ==
    LET nm == Constrained_try_from("StringMax100", name)
        cid == Constrained_try_from("StringMax50", customer_identification)
        id == Constrained_try_from("StringMax35", lei)
    IN  IF ~nm.ok THEN [ok |-> FALSE, msg |-> nm.msg, value |-> None]
        ELSE IF ~cid.ok THEN [ok |-> FALSE, msg |-> cid.msg, value |-> None]
        ELSE IF ~id.ok THEN [ok |-> FALSE, msg |-> id.msg, value |-> None]
        ELSE [ok |-> TRUE, msg |-> "",
              value |-> Some(
                [name |-> [name_identifier |->
                               One([legal_person_name |-> nm.value.inner,
                                    legal_person_name_identifier_type |-> "LEGL"]),
                           local_name_identifier |-> ZeroToN_from_option(None),
                           phonetic_name_identifier |-> ZeroToN_from_option(None)],
                 geographic_address |-> ZeroToN_from_option(Some(address)),
                 customer_identification |-> Some(cid.value.inner),
                 national_identification |->
                    Some([national_identifier |-> id.value.inner,
                          national_identifier_type |-> "MISC",
                          country_of_issue |-> None,
                          registration_authority |-> None]),
                 country_of_registration |-> None])]

\* LegalPerson::new; lei is the text of lei.to_string()
LegalPerson_new(name, customer_identification, address, lei) ==
    LET nm == Constrained_try_from("StringMax100", name)
        cid == Constrained_try_from("StringMax50", customer_identification)
        id == Constrained_try_from("StringMax35", lei)
    IN  IF ~nm.ok THEN [ok |-> FALSE, msg |-> nm.msg, value |-> None]
        ELSE IF ~cid.ok THEN [ok |-> FALSE, msg |-> cid.msg, value |-> None]
        ELSE IF ~id.ok THEN [ok |-> FALSE, msg |-> id.msg, value |-> None]
        ELSE [ok |-> TRUE, msg |-> "",
              value |-> Some(
                [name |-> [name_identifier |->
                               One([legal_person_name |-> nm.value.inner,
                                    legal_person_name_identifier_type |-> "LEGL"]),
                           local_name_identifier |-> ZeroToN_from_option(None),
                           phonetic_name_identifier |-> ZeroToN_from_option(None)],
                 geographic_address |-> ZeroToN_from_option(Some(address)),
                 customer_identification |-> Some(cid.value.inner),
                 national_identification |->
                    Some([national_identifier |-> id.value.inner,
                          national_identifier_type |-> "LEIX",
                          country_of_issue |-> None,
                          registration_authority |-> None]),
                 country_of_registration |-> None])]

\* LegalPerson::name: the name of the first identifier
LegalPerson_name(self) ==
    OneToN_first(self.name.name_identifier).legal_person_name

Person_first_name(self) ==
    IF self.variant = "NaturalPerson"
    THEN NaturalPerson_first_name(self.natural[1])
    ELSE None

Person_last_name(self) ==
    IF self.variant = "NaturalPerson"
    THEN NaturalPerson_last_name(self.natural[1])
    ELSE LegalPerson_name(self.legal[1])

Originator_last_name(self) == Person_last_name(OneToN_first(self.originator_persons))

Beneficiary_last_name(self) == Person_last_name(OneToN_first(self.beneficiary_persons))

\* the mutant is a stub that passes whatever the record holds
IntermediaryVASP_validate_stub(self) == Ok

\* validate() of the person only: the sequence is not looked at
IntermediaryVASP_validate(self) ==
    early_return(<< Person_validate(self.intermediary_vasp) >>)

lib_IntermediaryVASP_validate(self) ==
    early_return(<< lib_Person_validate(self.intermediary_vasp) >>)

\* the arguments of the builders, with names and customer ids at both sides
\* of their bounds; the persons handed to the accessors and to validate(),
\* alone, in an Originator, in a Beneficiary and in an IntermediaryVASP
InitHelpers ==
    LET Long(S, n) == S \cup {t \in ConstrainedTexts : Len(t) \in {n, n + 1}}
        Persons ==
            OriginatorPersons \cup
                {Person_NaturalPerson(
                    [NaturalPerson_mock EXCEPT
                        !.name = One([NaturalPersonName_mock EXCEPT
                            !.name_identifier =
                                One([NaturalPersonNameID_mock EXCEPT
                                        !.secondary_identifier = None])])])}
    IN  /\ now = 1
        /\ res = NoResult
        /\ ProcessStart
        /\ wire = NoWire
        /\ \/ subject \in
                {[ty |-> "NaturalPerson::new",
                  val |-> [first_name |-> f, last_name |-> l,
                           customer_identification |-> c, address |-> a]] :
                    f \in Long({"Friedrich"}, 100),
                    l \in Long({"Engels"}, 100),
                    c \in {None} \cup {Some(t) : t \in Long({"customer-id"}, 50)},
                    a \in {None, Some(Address_mock), Some(Address_no_line)}}
           \/ subject \in
                {[ty |-> "LegalPerson::new",
                  val |-> [name |-> n, customer_identification |-> c,
                           address |-> a, lei |-> "2594007XIACKNMUAW223"]] :
                    n \in Long({"Company A"}, 100),
                    c \in Long({"id"}, 50),
                    a \in PersonAddresses}
           \/ subject \in
                {[ty |-> "OriginatingVASP::new",
                  val |-> [name |-> n, lei |-> "2594007XIACKNMUAW223"]] :
                    n \in Long({"", "Company A"}, 100)}
           \/ subject \in {[ty |-> "Person", val |-> p] : p \in Persons}
           \/ subject \in
                {[ty |-> "NaturalPerson", val |-> p.natural[1]] :
                    p \in {q \in Persons : q.variant = "NaturalPerson"}}
           \/ subject \in
                {[ty |-> "Originator",
                  val |-> [originator_persons |-> ps,
                           account_number |-> ZeroToN_from_option(None)]] :
                    ps \in OneToNValues(OriginatorPersons, MaxPersons)}
           \/ subject \in
                {[ty |-> "Beneficiary",
                  val |-> [beneficiary_persons |-> ps,
                           account_number |-> ZeroToN_from_option(None)]] :
                    ps \in OneToNValues(OriginatorPersons, MaxPersons)}
           \/ subject \in
                {[ty |-> "IntermediaryVASP",
                  val |-> [intermediary_vasp |-> p, sequence |-> n]] :
                    p \in Persons, n \in {0, 1, 2147483647}}

\* NaturalPerson::new(first_name, last_name, customer_identification, address)
NaturalPersonNew ==
    /\ subject.ty = "NaturalPerson::new"
    /\ \E unit \in {"messages.rs", "lib.rs"} :
        res' = Called("new", unit,
                      NaturalPerson_new(subject.val.first_name,
                                        subject.val.last_name,
                                        subject.val.customer_identification,
                                        subject.val.address),
                      None)
    /\ UNCHANGED <<subject, now, wire, COUNTRY_CODES, threads>>

\* LegalPerson::new(name, customer_identification, address, lei)
LegalPersonNew ==
    /\ subject.ty = "LegalPerson::new"
    /\ \E unit \in {"messages.rs", "lib.rs"} :
        res' = Called("new", unit,
                      LegalPerson_new(subject.val.name,
                                      subject.val.customer_identification,
                                      subject.val.address,
                                      subject.val.lei),
                      None)
    /\ UNCHANGED <<subject, now, wire, COUNTRY_CODES, threads>>

\* OriginatingVASP::new(name, lei): the two conversions, then the record
OriginatingVASPNew ==
    /\ subject.ty = "OriginatingVASP::new"
    /\ \E unit \in {"messages.rs", "lib.rs"} :
        LET name == Constrained_try_from("StringMax100", subject.val.name)
            id == Constrained_try_from("StringMax35", subject.val.lei)
        IN  res' = Called("new", unit,
                IF ~name.ok THEN [ok |-> FALSE, msg |-> name.msg, value |-> None]
                ELSE IF ~id.ok THEN [ok |-> FALSE, msg |-> id.msg, value |-> None]
                ELSE [ok |-> TRUE, msg |-> "",
                      value |-> Some(OriginatingVASP_new(name.value.inner,
                                                         id.value.inner))],
                None)
    /\ UNCHANGED <<subject, now, wire, COUNTRY_CODES, threads>>

\* validate() of the value that the builder has returned, in the revision
\* that built it
BuiltValidate ==
    /\ res.op = "new"
    /\ res.out.ok
    /\ LET built == res.out.value[1]
           lib == res.unit = "lib.rs"
       IN  res' = Called("validate", res.unit,
                CASE subject.ty = "NaturalPerson::new" ->
                        NaturalPerson_validate(built)
                  [] subject.ty = "LegalPerson::new" ->
                        IF lib THEN lib_LegalPerson_validate(built)
                        ELSE LegalPerson_validate(built)
                  [] subject.ty = "OriginatingVASP::new" ->
                        IF lib THEN lib_OriginatingVASP_validate(built)
                        ELSE OriginatingVASP_validate(built),
                None)
    /\ UNCHANGED <<subject, now, wire, COUNTRY_CODES, threads>>

\* Person::first_name()
FirstName ==
    /\ subject.ty = "Person"
    /\ \E unit \in {"messages.rs", "lib.rs"} :
        res' = Called("first_name", unit,
                      [ok |-> TRUE, msg |-> "",
                       value |-> Person_first_name(subject.val)],
                      None)
    /\ UNCHANGED <<subject, now, wire, COUNTRY_CODES, threads>>

\* Person::last_name(), Originator::last_name(), Beneficiary::last_name()
LastName ==
    /\ subject.ty \in {"Person", "Originator", "Beneficiary"}
    /\ \E unit \in {"messages.rs", "lib.rs"} :
        res' = Called("last_name", unit,
                      [ok |-> TRUE, msg |-> "",
                       value |-> CASE subject.ty = "Person" ->
                                        Person_last_name(subject.val)
                                   [] subject.ty = "Originator" ->
                                        Originator_last_name(subject.val)
                                   [] subject.ty = "Beneficiary" ->
                                        Beneficiary_last_name(subject.val)],
                      None)
    /\ UNCHANGED <<subject, now, wire, COUNTRY_CODES, threads>>

\* Person.validate(), Beneficiary.validate(), IntermediaryVASP.validate()
RecordValidate ==
    /\ subject.ty \in {"Person", "Beneficiary", "IntermediaryVASP"}
    /\ \E unit \in {"messages.rs", "lib.rs"} :
        LET lib == unit = "lib.rs"
        IN  res' = Called("validate", unit,
                CASE subject.ty = "Person" ->
                        IF lib THEN lib_Person_validate(subject.val)
                        ELSE Person_validate(subject.val)
                  [] subject.ty = "Beneficiary" ->
                        IF lib THEN lib_Beneficiary_validate(subject.val)
                        ELSE Beneficiary_validate(subject.val)
                  [] subject.ty = "IntermediaryVASP" ->
                        IF lib THEN lib_IntermediaryVASP_validate(subject.val)
                        ELSE IntermediaryVASP_validate(subject.val),
                None)
    /\ UNCHANGED <<subject, now, wire, COUNTRY_CODES, threads>>

NextHelpers ==
    \/ NaturalPersonNew
    \/ LegalPersonNew
    \/ OriginatingVASPNew
    \/ BuiltValidate
    \/ FirstName
    \/ LastName
    \/ RecordValidate
    \/ NaturalPersonValidate
    \/ OriginatorValidate
    \/ LibOriginatorValidate

SpecHelpers == InitHelpers /\ [][NextHelpers]_vars

-----------------------------------------------------------------------------
(* serde: the encoded form is a tree of tokens [ty, val]; a map is the       *)
(* sequence of its entries [key, val] in the order they were written         *)

Token_Unit == [ty |-> "Unit", val |-> <<>>]
Token_U8(n) == [ty |-> "U8", val |-> n]
Token_Seq(items) == [ty |-> "Seq", val |-> items]
Token_Map(entries) == [ty |-> "Map", val |-> entries]

Decoded(v) == [ok |-> TRUE, msg |-> "", value |-> v]
DecodeErr(m) == [ok |-> FALSE, msg |-> m, value |-> <<>>]

\* Vec<T>: elems holds the results of T::deserialize on the elements
Vec_deserialize(token, elems) ==
    IF token.ty = "Seq" /\ \A i \in 1..Len(elems) : elems[i].ok
    THEN Decoded([i \in 1..Len(elems) |-> elems[i].value])
    ELSE DecodeErr("invalid type")

\* the mutant accepts the empty vector
NonEmptyVec_try_from_any(from) == Decoded(from)

NonEmptyVec_try_from(from) ==
    IF Len(from) = 0
    THEN DecodeErr("Vector must not be empty")
    ELSE Decoded(from)

\* #[serde(try_from = "Vec<T>")]
NonEmptyVec_deserialize(token, elems) ==
    LET v == Vec_deserialize(token, elems)
    IN  IF ~v.ok THEN v
        ELSE LET nev == NonEmptyVec_try_from(v.value)
             IN  IF nev.ok THEN nev
                 ELSE DecodeErr(ValidationError_to_string(nev.msg))

\* OneToN::from(t)
OneToN_from(from) == One(from)

\* the mutant writes One(t) as a list of one element
OneToN_serialize_as_list(c) == Token_Seq(c.items)

\* #[serde(untagged)]: One(t) is written as t, N(nev) as the list; the items
\* of c are the tokens of the elements
OneToN_serialize(c) ==
    IF c.tag = "One" THEN c.items[1] ELSE Token_Seq(c.items)

\* #[serde(untagged)]: the variants are tried in the order of declaration;
\* bare is the result of T::deserialize on the token, elems the results on
\* its elements
OneToN_deserialize(token, bare, elems) ==
    IF bare.ok
    THEN Decoded(One(bare.value))
    ELSE LET nev == NonEmptyVec_deserialize(token, elems)
         IN  IF nev.ok
             THEN Decoded(N(nev.value))
             ELSE DecodeErr("data did not match any variant of untagged enum OneToN")

ZeroToN_serialize(c) ==
    CASE c.tag = "None" -> Token_Unit
      [] c.tag = "One" -> c.items[1]
      [] c.tag = "N" -> Token_Seq(c.items)

ZeroToN_deserialize(token, bare, elems) ==
    IF token.ty = "Unit"
    THEN Decoded(ZNone)
    ELSE IF bare.ok
    THEN Decoded(One(bare.value))
    ELSE LET v == Vec_deserialize(token, elems)
         IN  IF v.ok
             THEN Decoded(N(v.value))
             ELSE DecodeErr("data did not match any variant of untagged enum ZeroToN")

-----------------------------------------------------------------------------
(* serde derive: a struct is a map of its fields under their camelCase      *)
(* names; skip_serializing_if leaves an entry out, default and Option fill  *)
(* a missing entry in, deny_unknown_fields rejects any other key            *)

\* a field: its key on the wire, its name, its container ("one" for none)
\* and the type of its elements
Field(key, name, card, ty) == [key |-> key, name |-> name, card |-> card, ty |-> ty]

Fields(ty) ==
    CASE ty = "Originator" ->
            <<Field("originatorPersons", "originator_persons", "OneToN", "Person"),
              Field("accountNumber", "account_number", "ZeroToN", "StringMax100")>>
      [] ty = "Beneficiary" ->
            <<Field("beneficiaryPersons", "beneficiary_persons", "OneToN", "Person"),
              Field("accountNumber", "account_number", "ZeroToN", "StringMax100")>>
      [] ty = "NaturalPerson" ->
            <<Field("name", "name", "OneToN", "NaturalPersonName"),
              Field("geographicAddress", "geographic_address", "ZeroToN", "Address"),
              Field("nationalIdentification", "national_identification", "Option",
                    "NationalIdentification"),
              Field("customerIdentification", "customer_identification", "Option",
                    "StringMax50"),
              Field("dateAndPlaceOfBirth", "date_and_place_of_birth", "Option",
                    "DateAndPlaceOfBirth"),
              Field("countryOfResidence", "country_of_residence", "Option",
                    "CountryCode")>>
      [] ty = "NaturalPersonName" ->
            <<Field("nameIdentifier", "name_identifier", "OneToN", "NaturalPersonNameID"),
              Field("localNameIdentifier", "local_name_identifier", "ZeroToN",
                    "LocalNaturalPersonNameID"),
              Field("phoneticNameIdentifier", "phonetic_name_identifier", "ZeroToN",
                    "LocalNaturalPersonNameID")>>
      [] ty \in {"NaturalPersonNameID", "LocalNaturalPersonNameID"} ->
            <<Field("primaryIdentifier", "primary_identifier", "one", "StringMax100"),
              Field("secondaryIdentifier", "secondary_identifier", "Option",
                    "StringMax100"),
              Field("nameIdentifierType", "name_identifier_type", "one",
                    "NaturalPersonNameTypeCode")>>
      [] ty = "Address" ->
            <<Field("addressType", "address_type", "one", "AddressTypeCode"),
              Field("department", "department", "Option", "StringMax50"),
              Field("subDepartment", "sub_department", "Option", "StringMax70"),
              Field("streetName", "street_name", "Option", "StringMax70"),
              Field("buildingNumber", "building_number", "Option", "StringMax16"),
              Field("buildingName", "building_name", "Option", "StringMax35"),
              Field("floor", "floor", "Option", "StringMax70"),
              Field("postBox", "post_box", "Option", "StringMax16"),
              Field("room", "room", "Option", "StringMax70"),
              Field("postCode", "post_code", "Option", "StringMax16"),
              Field("townName", "town_name", "one", "StringMax35"),
              Field("townLocationName", "town_location_name", "Option", "StringMax35"),
              Field("districtName", "district_name", "Option", "StringMax35"),
              Field("countrySubDivision", "country_sub_division", "Option",
                    "StringMax35"),
              Field("addressLine", "address_line", "ZeroToN", "StringMax70"),
              Field("country", "country", "one", "CountryCode")>>
      [] ty = "DateAndPlaceOfBirth" ->
            <<Field("dateOfBirth", "date_of_birth", "one", "Date"),
              Field("placeOfBirth", "place_of_birth", "one", "StringMax70")>>
      [] ty = "NationalIdentification" ->
            <<Field("nationalIdentifier", "national_identifier", "one", "StringMax35"),
              Field("nationalIdentifierType", "national_identifier_type", "one",
                    "NationalIdentifierTypeCode"),
              Field("countryOfIssue", "country_of_issue", "Option", "CountryCode"),
              Field("registrationAuthority", "registration_authority", "Option",
                    "RegistrationAuthority")>>
      [] ty = "LegalPerson" ->
            <<Field("name", "name", "one", "LegalPersonName"),
              Field("geographicAddress", "geographic_address", "ZeroToN", "Address"),
              Field("customerIdentification", "customer_identification", "Option",
                    "StringMax50"),
              Field("nationalIdentification", "national_identification", "Option",
                    "NationalIdentification"),
              Field("countryOfRegistration", "country_of_registration", "Option",
                    "CountryCode")>>
      [] ty = "LegalPersonName" ->
            <<Field("nameIdentifier", "name_identifier", "OneToN", "LegalPersonNameID"),
              Field("localNameIdentifier", "local_name_identifier", "ZeroToN",
                    "LocalLegalPersonNameID"),
              Field("phoneticNameIdentifier", "phonetic_name_identifier", "ZeroToN",
                    "LocalLegalPersonNameID")>>
      [] ty \in {"LegalPersonNameID", "LocalLegalPersonNameID"} ->
            <<Field("legalPersonName", "legal_person_name", "one", "StringMax100"),
              Field("legalPersonNameIdentifierType",
                    "legal_person_name_identifier_type", "one",
                    "LegalPersonNameTypeCode")>>

\* the enumerations of unit variants, written as their tag in upper case
Variants(ty) ==
    CASE ty = "NaturalPersonNameTypeCode" -> NaturalPersonNameTypeCode
      [] ty = "LegalPersonNameTypeCode" -> LegalPersonNameTypeCode
      [] ty = "AddressTypeCode" -> AddressTypeCode
      [] ty = "NationalIdentifierTypeCode" -> NationalIdentifierTypeCode
      [] OTHER -> {}

\* a variant that leaves a ZeroToN field out only when it is ZeroToN::None
skip_serializing_if_none_only(card, v) ==
    CASE card = "Option" -> is_none(v)
      [] card = "ZeroToN" -> v.tag = "None"
      [] OTHER -> FALSE

\* skip_serializing_if = "Option::is_none" on every Option field and
\* skip_serializing_if = "types::ZeroToN::is_empty" on every ZeroToN field
skip_serializing_if(card, v) ==
    CASE card = "Option" -> is_none(v)
      [] card = "ZeroToN" -> ZeroToN_is_empty(v)
      [] OTHER -> FALSE

\* chrono::NaiveDate is written as YYYY-MM-DD; day 0 is 1970-01-01
Date_serialize(d) ==
    Str("1970-01-" \o (IF d + 1 < 10 THEN "0" ELSE "") \o ToString(d + 1))

Date_deserialize(token) ==
    IF token.ty = "Str" /\ \E d \in 0..30 : Date_serialize(d) = token
    THEN Decoded(CHOOSE d \in 0..30 : Date_serialize(d) = token)
    ELSE DecodeErr("input contains invalid characters")

\* Serialize for a value of type ty held in the container card; StringMaxNN
\* values are the texts, CountryCode and RegistrationAuthority values are
\* [inner |-> text], a Person is an externally tagged enum
RECURSIVE Serialize(_, _, _)
Serialize(card, ty, v) ==
    LET Entry(key, token) == <<[key |-> key, val |-> token]>>
        items == [i \in 1..Len(v.items) |-> Serialize("one", ty, v.items[i])]
        fs == Fields(ty)
        \* the entries of the first n fields, in the order of declaration
        entries[n \in 0..Len(fs)] ==
            IF n = 0 THEN <<>>
            ELSE entries[n - 1] \o
                 (IF skip_serializing_if(fs[n].card, v[fs[n].name])
                  THEN <<>>
                  ELSE Entry(fs[n].key,
                             Serialize(fs[n].card, fs[n].ty, v[fs[n].name])))
    IN
    CASE card = "OneToN" -> OneToN_serialize([v EXCEPT !.items = items])
      [] card = "ZeroToN" -> ZeroToN_serialize([v EXCEPT !.items = items])
      [] card = "Option" ->
            IF is_none(v) THEN Token_Unit ELSE Serialize("one", ty, v[1])
      [] card = "one" /\ ty = "u8" -> Token_U8(v)
      [] card = "one" /\ ty = "Date" -> Date_serialize(v)
      [] card = "one" /\ ty \in {"CountryCode", "RegistrationAuthority"} ->
            Constrained_serialize(v)
      [] card = "one" /\ ty \in ConstrainedTypes
                      /\ ty \notin {"CountryCode", "RegistrationAuthority"} -> Str(v)
      [] card = "one" /\ Variants(ty) # {} -> Str(v)
      [] card = "one" /\ ty = "Person" ->
            IF v.variant = "NaturalPerson"
            THEN Token_Map(Entry("naturalPerson",
                                 Serialize("one", "NaturalPerson", v.natural[1])))
            ELSE Token_Map(Entry("legalPerson",
                                 Serialize("one", "LegalPerson", v.legal[1])))
      [] OTHER -> Token_Map(entries[Len(fs)])

\* Deserialize for the same types: an absent Option field is None, an absent
\* ZeroToN field is its default ZeroToN::None, any other absent field, an
\* unknown key (deny_unknown_fields) or a repeated key is an error
RECURSIVE Deserialize(_, _, _)
Deserialize(card, ty, token) ==
    LET elements == IF token.ty = "Seq" THEN token.val ELSE <<>>
        bare == Deserialize("one", ty, token)
        elems == [i \in 1..Len(elements) |-> Deserialize("one", ty, elements[i])]
    IN
    CASE card = "OneToN" -> OneToN_deserialize(token, bare, elems)
      [] card = "ZeroToN" -> ZeroToN_deserialize(token, bare, elems)
      [] card = "Option" ->
            IF token.ty = "Unit" THEN Decoded(None)
            ELSE IF bare.ok THEN Decoded(Some(bare.value)) ELSE bare
      [] card = "one" /\ ty = "u8" ->
            IF token.ty = "U8" THEN Decoded(token.val) ELSE DecodeErr("invalid type")
      [] card = "one" /\ ty = "Date" -> Date_deserialize(token)
      [] card = "one" /\ ty \in ConstrainedTypes ->
            LET r == Constrained_deserialize(ty, token)
            IN  IF ~r.ok THEN DecodeErr(r.msg)
                ELSE IF ty \in {"CountryCode", "RegistrationAuthority"}
                THEN Decoded(r.value)
                ELSE Decoded(r.value.inner)
      [] card = "one" /\ Variants(ty) # {} ->
            IF token.ty = "Str" /\ token.val \in Variants(ty)
            THEN Decoded(token.val)
            ELSE DecodeErr("unknown variant")
      [] card = "one" /\ ty = "Person" ->
            IF token.ty # "Map" \/ Len(token.val) # 1
            THEN DecodeErr("invalid type")
            ELSE IF token.val[1].key = "naturalPerson"
            THEN LET r == Deserialize("one", "NaturalPerson", token.val[1].val)
                 IN  IF r.ok THEN Decoded(Person_NaturalPerson(r.value)) ELSE r
            ELSE IF token.val[1].key = "legalPerson"
            THEN LET r == Deserialize("one", "LegalPerson", token.val[1].val)
                 IN  IF r.ok THEN Decoded(Person_LegalPerson(r.value)) ELSE r
            ELSE DecodeErr("unknown variant")
      [] OTHER ->
            IF token.ty # "Map" THEN DecodeErr("invalid type")
            ELSE
            LET fs == Fields(ty)
                e == token.val
                At(k) == {i \in 1..Len(e) : e[i].key = k}
                r == [i \in 1..Len(fs) |->
                        IF At(fs[i].key) # {}
                        THEN Deserialize(fs[i].card, fs[i].ty,
                                         e[CHOOSE j \in At(fs[i].key) : TRUE].val)
                        ELSE IF fs[i].card = "Option" THEN Decoded(None)
                        ELSE IF fs[i].card = "ZeroToN" THEN Decoded(ZNone)
                        ELSE DecodeErr("missing field")]
            IN  IF \E i \in 1..Len(e) : \A j \in 1..Len(fs) : e[i].key # fs[j].key
                THEN DecodeErr("unknown field")
                ELSE IF \E i \in 1..Len(fs) : Cardinality(At(fs[i].key)) > 1
                THEN DecodeErr("duplicate field")
                ELSE IF \E i \in 1..Len(fs) : ~r[i].ok
                THEN DecodeErr(r[CHOOSE i \in 1..Len(fs) : ~r[i].ok].msg)
                ELSE Decoded([n \in {fs[i].name : i \in 1..Len(fs)} |->
                                r[CHOOSE i \in 1..Len(fs) : fs[i].name = n].value])

-----------------------------------------------------------------------------
(* Containers: construction, encoding, decoding, first(), iteration *)

U8Values == {1, 2}

\* OneToN::from(t)
OneToNFrom ==
    /\ subject.ty = "u8"
    /\ subject' = [ty |-> "OneToN<u8>", val |-> OneToN_from(subject.val)]
    /\ res' = Called("from", "one_to_n.rs", Ok, None)
    /\ UNCHANGED <<now, wire, COUNTRY_CODES, threads>>

\* OneToN::N(vec.try_into()?)
NonEmptyVecTryFrom ==
    /\ subject.ty = "Vec<u8>"
    /\ LET r == NonEmptyVec_try_from(subject.val)
       IN  /\ res' = Called("try_from", "non_empty_vec.rs",
                            [ok |-> r.ok, msg |-> r.msg], None)
           /\ subject' = IF r.ok THEN [ty |-> "OneToN<u8>", val |-> N(r.value)]
                                 ELSE subject
    /\ UNCHANGED <<now, wire, COUNTRY_CODES, threads>>

OneToNSerialize ==
    /\ subject.ty = "OneToN<u8>"
    /\ wire' = Serialize("OneToN", "u8", subject.val)
    /\ res' = Called("serialize", "one_to_n.rs", Ok, None)
    /\ UNCHANGED <<subject, now, COUNTRY_CODES, threads>>

OneToNDeserialize ==
    /\ subject.ty \in {"OneToN<u8>", "tokens"}
    /\ subject.ty = "tokens" => subject.val = "OneToN<u8>"
    /\ wire.ty # "none"
    /\ res' = Called("deserialize", "one_to_n.rs", Deserialize("OneToN", "u8", wire), None)
    /\ UNCHANGED <<subject, now, wire, COUNTRY_CODES, threads>>

\* first() and into_iter() are called on the container at hand: the one
\* constructed or the one decoded last
OneToNFirst ==
    /\ \E c \in (IF subject.ty = "OneToN<u8>" THEN {subject.val} ELSE {})
                \cup (IF res.op = "deserialize" /\ res.unit = "one_to_n.rs" /\ res.out.ok
                      THEN {res.out.value} ELSE {}) :
        res' = Called("first", "one_to_n.rs",
                      [ok |-> TRUE, msg |-> "",
                       value |-> [self |-> c, ret |-> OneToN_first(c)]], None)
    /\ UNCHANGED <<subject, now, wire, COUNTRY_CODES, threads>>

OneToNIntoIter ==
    /\ \E c \in (IF subject.ty = "OneToN<u8>" THEN {subject.val} ELSE {})
                \cup (IF res.op = "deserialize" /\ res.unit = "one_to_n.rs" /\ res.out.ok
                      THEN {res.out.value} ELSE {}) :
        res' = Called("into_iter", "one_to_n.rs",
                      [ok |-> TRUE, msg |-> "",
                       value |-> [self |-> c, ret |-> OneToN_into_iter(c)]], None)
    /\ UNCHANGED <<subject, now, wire, COUNTRY_CODES, threads>>

\* ZeroToN::is_empty()
ZeroToNIsEmpty ==
    /\ subject.ty = "ZeroToN<u8>"
    /\ res' = Called("is_empty", "zero_to_n.rs",
                     [ok |-> TRUE, msg |-> "",
                      value |-> [self |-> subject.val,
                                 ret |-> ZeroToN_is_empty(subject.val)]], None)
    /\ UNCHANGED <<subject, now, wire, COUNTRY_CODES, threads>>

\* ZeroToN::first()
ZeroToNFirst ==
    /\ subject.ty = "ZeroToN<u8>"
    /\ res' = Called("first", "zero_to_n.rs",
                     [ok |-> TRUE, msg |-> "",
                      value |-> [self |-> subject.val,
                                 ret |-> ZeroToN_first(subject.val)]], None)
    /\ UNCHANGED <<subject, now, wire, COUNTRY_CODES, threads>>

-----------------------------------------------------------------------------
(* Message parts on the wire: serde_json::to_string, serde_json::from_str *)

PartTypes == {"Address", "Person", "Originator", "Beneficiary"}

PartSerialize ==
    /\ subject.ty \in PartTypes
    /\ wire' = Serialize("one", subject.ty, subject.val)
    /\ res' = Called("serialize", "messages.rs", Ok, None)
    /\ UNCHANGED <<subject, now, COUNTRY_CODES, threads>>

PartDeserialize ==
    /\ subject.ty \in PartTypes
    /\ wire.ty # "none"
    /\ res' = Called("deserialize", "messages.rs",
                     Deserialize("one", subject.ty, wire), None)
    /\ UNCHANGED <<subject, now, wire, COUNTRY_CODES, threads>>

\* the values and the tokens drawn for OneToN<u8> (a bare value, lists of
\* values, a text, a list that holds a text) and the message parts
InitWire ==
    LET
        \* the parts put on the wire: the ZeroToN fields of names, persons and
        \* accounts are absent, single, an empty list or a list
        WireParts ==
            LET AccountNumbers == {ZNone, One("1"), N(<<>>), N(<<"1", "2">>)}
                WireNaturalPersonNames ==
                    {[NaturalPersonName_mock EXCEPT !.local_name_identifier = l,
                                                    !.phonetic_name_identifier = ph] :
                        l \in {ZNone, One(NaturalPersonNameID_mock), N(<<>>)},
                        ph \in {ZNone, N(<<>>),
                                N(<<NaturalPersonNameID_mock, NaturalPersonNameID_mock>>)}}
                WirePersons ==
                    OriginatorPersons
                    \cup {Person_NaturalPerson(
                            [NaturalPerson_mock EXCEPT
                                !.name = One(nm),
                                !.geographic_address = N(<<Address_mock, Address_mock>>),
                                !.country_of_residence = Some([inner |-> "CH"])]) :
                            nm \in WireNaturalPersonNames}
                    \cup {Person_LegalPerson(
                            [LegalPerson_mock EXCEPT !.geographic_address = ga]) :
                            ga \in {N(<<>>), N(<<Address_mock>>)}}
                WireAccountPersons ==
                    {Person_NaturalPerson(NaturalPerson_mock),
                     Person_NaturalPerson([NaturalPerson_mock EXCEPT
                        !.geographic_address = N(<<>>),
                        !.customer_identification = Some("customer-id")]),
                     Person_NaturalPerson([NaturalPerson_mock EXCEPT
                        !.geographic_address = One(Address_mock)]),
                     Person_LegalPerson([LegalPerson_mock EXCEPT
                        !.customer_identification = Some("id")])}
            IN  {[ty |-> "Address", val |-> a] : a \in Addresses}
                \cup {[ty |-> "Person", val |-> p] : p \in WirePersons}
                \cup {[ty |-> "Originator",
                       val |-> [originator_persons |-> ps, account_number |-> an]] :
                        ps \in OneToNValues(WireAccountPersons, MaxPersons),
                        an \in AccountNumbers}
                \cup {[ty |-> "Beneficiary",
                       val |-> [beneficiary_persons |-> ps, account_number |-> an]] :
                        ps \in OneToNValues(WireAccountPersons, MaxPersons),
                        an \in AccountNumbers}
    IN
    /\ now = 1
    /\ res = NoResult
    /\ ProcessStart
    /\ \/ /\ wire = NoWire
          /\ subject \in {[ty |-> "u8", val |-> v] : v \in U8Values}
       \/ /\ wire = NoWire
          /\ subject \in {[ty |-> "Vec<u8>", val |-> v] :
                               v \in SeqsUpTo(U8Values, MaxList)}
       \/ /\ wire = NoWire
          /\ subject \in {[ty |-> "OneToN<u8>", val |-> c] :
                               c \in OneToNValues(U8Values, MaxList)}
       \/ /\ wire = NoWire
          /\ subject \in {[ty |-> "ZeroToN<u8>", val |-> c] :
                               c \in ZeroToNValues(U8Values, MaxList)}
       \/ /\ wire \in {Token_U8(v) : v \in U8Values}
                        \cup {Token_Seq([i \in 1..Len(v) |-> Token_U8(v[i])]) :
                                    v \in SeqsUpTo(U8Values, MaxList)}
                        \cup {Str("a"), Token_Seq(<<Str("a")>>)}
          /\ subject = [ty |-> "tokens", val |-> "OneToN<u8>"]
       \/ /\ wire = NoWire
          /\ subject \in WireParts

NextWire ==
    \/ OneToNFrom
    \/ NonEmptyVecTryFrom
    \/ OneToNSerialize
    \/ OneToNDeserialize
    \/ OneToNFirst
    \/ OneToNIntoIter
    \/ ZeroToNIsEmpty
    \/ ZeroToNFirst
    \/ PartSerialize
    \/ PartDeserialize

SpecWire == InitWire /\ [][NextWire]_vars

-----------------------------------------------------------------------------
(* Claims on the leaf entities, checked under Spec *)

AtLeastOneLine(a) == Len(a.address_line.items) >= 1

\* C6 (rule C8): Address.validate() succeeds if and only if there is at least
\* one address line (an absent field and an empty list both count as no line)
\* or a street name together with a building name or a building number;
\* otherwise it fails with an error tagged (IVMS101 C8).  A street name alone
\* fails.
C6_AddressRuleC8 ==
    Validated("Address") =>
        LET a == subject.val
        IN  /\ res.out.ok <=>
                \/ AtLeastOneLine(a)
                \/ /\ a.street_name # None
                   /\ (a.building_name # None \/ a.building_number # None)
            /\ ~res.out.ok => match_validation_error(res.out, 8)
            /\ ( /\ ~AtLeastOneLine(a)
                 /\ a.street_name # None
                 /\ a.building_name = None
                 /\ a.building_number = None ) => match_validation_error(res.out, 8)

\* an address with an empty list of lines, a street name and a building
\* number has been validated and accepted
C6_Witness ==
    /\ Validated("Address")
    /\ subject.val.address_line = N(<<>>)
    /\ subject.val.street_name # None
    /\ subject.val.building_number # None
    /\ subject.val.building_name = None
    /\ res.out.ok

HasLegl(ids, field) == \E i \in 1..Len(ids) : ids[i][field] = "LEGL"

\* C7 (rules C5, C6): a name passes validation if and only if at least one
\* entry of its name_identifier list has type LEGL, at whatever position;
\* otherwise LegalPersonName.validate() fails with (IVMS101 C5) and
\* NaturalPersonName.validate() with (IVMS101 C6).  The entries of
\* local_name_identifier and phonetic_name_identifier are not counted.
C7_NameRulesC5C6 ==
    /\ Validated("LegalPersonName") =>
        /\ res.out.ok <=> HasLegl(subject.val.name_identifier.items,
                                  "legal_person_name_identifier_type")
        /\ ~res.out.ok => match_validation_error(res.out, 5)
    /\ Validated("NaturalPersonName") =>
        /\ res.out.ok <=> HasLegl(subject.val.name_identifier.items,
                                  "name_identifier_type")
        /\ ~res.out.ok => match_validation_error(res.out, 6)

\* a natural person name whose LEGL identifier stands second has been
\* validated and accepted
C7_Witness ==
    /\ Validated("NaturalPersonName")
    /\ subject.val.name_identifier.tag = "N"
    /\ Len(subject.val.name_identifier.items) >= 2
    /\ subject.val.name_identifier.items[1].name_identifier_type = "ALIA"
    /\ subject.val.name_identifier.items[2].name_identifier_type = "LEGL"
    /\ res.out.ok

\* C8 (rule C2): DateAndPlaceOfBirth.validate() succeeds if and only if
\* date_of_birth is strictly earlier than the current UTC date read by the
\* call; a birth date equal to the current date, or later, fails with an
\* error tagged (IVMS101 C2).
C8_DateRuleC2 ==
    Validated("DateAndPlaceOfBirth") =>
        /\ res.utc # None
        /\ res.out.ok <=> subject.val.date_of_birth < res.utc[1]
        /\ ~res.out.ok => match_validation_error(res.out, 2)

\* a birth date equal to the current date has been validated and rejected
C8_Witness ==
    /\ Validated("DateAndPlaceOfBirth")
    /\ res.utc = Some(subject.val.date_of_birth)
    /\ match_validation_error(res.out, 2)

\* C9 (rule C3): CountryCode.validate() succeeds if and only if the code is
\* "XX" or is found in the ISO 3166-1 alpha-2 table; every other code of two
\* characters, such as "RR", fails with an error tagged (IVMS101 C3); "XX"
\* passes although the table does not hold it.
C9_CountryRuleC3 ==
    Validated("CountryCode") =>
        LET code == subject.val.inner
        IN  /\ Len(code) = 2
            /\ res.out.ok <=> (code = "XX" \/ iso3166_1_alpha2(code))
            /\ ~res.out.ok => match_validation_error(res.out, 3)
            /\ code = "RR" => match_validation_error(res.out, 3)
            /\ code = "XX" => res.out.ok

\* "XX", which the table does not hold, has been validated and accepted
C9_Witness ==
    /\ Validated("CountryCode")
    /\ subject.val.inner = "XX"
    /\ ~iso3166_1_alpha2("XX")
    /\ res.out.ok

\* C10 (rule C10): RegistrationAuthority.validate() succeeds if and only if
\* the code is on the GLEIF list; a code of 8 characters that is not on the
\* list, such as "RA100094", is constructed successfully (try_from rejects a
\* text only when its length is not 8) and then fails validation with an
\* error tagged (IVMS101 C10).
C10_RegistrationAuthorityRuleC10 ==
    /\ Validated("RegistrationAuthority") =>
        /\ Len(subject.val.inner) = 8
        /\ res.out.ok <=> is_valid_ra(subject.val.inner)
        /\ ~res.out.ok => match_validation_error(res.out, 10)
        /\ subject.val.inner = "RA100094" => match_validation_error(res.out, 10)
    /\ (subject.ty = "RegistrationAuthority text" /\ res.op = "try_from") =>
        (~res.out.ok /\ Len(subject.val) # 8)
    /\ (subject.ty = "RegistrationAuthority" /\ res.op = "try_from") =>
        (res.out.ok /\ Len(subject.val.inner) = 8)

\* "RA100094" has been constructed and then rejected by validate()
C10_Witness ==
    /\ Validated("RegistrationAuthority")
    /\ subject.val.inner = "RA100094"
    /\ match_validation_error(res.out, 10)

\* the code is "XX" or in the ISO 3166-1 alpha-2 table
Recognized(code) == code = "XX" \/ iso3166_1_alpha2(code)

Bound(type, n) ==
    CASE type = "StringMax16" -> n <= 16
      [] type = "StringMax35" -> n <= 35
      [] type = "StringMax50" -> n <= 50
      [] type = "StringMax70" -> n <= 70
      [] type = "StringMax100" -> n <= 100
      [] type = "CountryCode" -> n = 2
      [] type = "RegistrationAuthority" -> n = 8

-----------------------------------------------------------------------------
(* Claims on persons, checked under SpecPerson *)

\* the rules as the standard words them, on the data of a legal person
HasAddressOfType(lp, ty) ==
    \E i \in 1..Len(lp.geographic_address.items) :
        lp.geographic_address.items[i].address_type = ty

AddressMeetsC8(a) ==
    \/ AtLeastOneLine(a)
    \/ /\ a.street_name # None
       /\ (a.building_name # None \/ a.building_number # None)

AllAddressesMeetC8(p) ==
    \A i \in 1..Len(p.geographic_address.items) :
        AddressMeetsC8(p.geographic_address.items[i])

LegalTypes == {"RAID", "MISC", "LEIX", "TXID"}

\* C2 (rule C4), as claimed: LegalPerson.validate() fails with an error
\* tagged (IVMS101 C4) if and only if the person has no address of type
\* GEOG, no national identification and no customer identification.
C2_LegalRuleC4 ==
    Validated("LegalPerson") =>
        LET lp == subject.val
        IN  match_validation_error(res.out, 4) <=>
                ~ \/ HasAddressOfType(lp, "GEOG")
                  \/ lp.national_identification # None
                  \/ lp.customer_identification # None

\* C3 (rule C9): a legal person without national identification never fails
\* C9; one that carries a national identification and meets C4, C7, C11, C5
\* and C8 fails with an error tagged (IVMS101 C9) if and only if
\* country_of_issue is present, or the type is not LEIX and
\* registration_authority is absent, or the type is LEIX and
\* registration_authority is present, and is accepted otherwise.
C3_LegalRuleC9 ==
    Validated("LegalPerson") =>
        LET lp == subject.val
            nid == lp.national_identification
        IN  /\ nid = None => ~match_validation_error(res.out, 9)
            /\ ( /\ nid # None
                 /\ nid[1].national_identifier_type \in LegalTypes
                 /\ ( nid[1].national_identifier_type = "LEIX"
                        => LEI_try_from(nid[1].national_identifier) )
                 /\ HasLegl(lp.name.name_identifier.items,
                            "legal_person_name_identifier_type")
                 /\ AllAddressesMeetC8(lp) )
               => LET violates ==
                        \/ nid[1].country_of_issue # None
                        \/ /\ nid[1].national_identifier_type # "LEIX"
                           /\ nid[1].registration_authority = None
                        \/ /\ nid[1].national_identifier_type = "LEIX"
                           /\ nid[1].registration_authority # None
                  IN  /\ match_validation_error(res.out, 9) <=> violates
                      /\ ~violates => res.out.ok

\* a LEIX identification with a valid LEI and a registration authority has
\* been rejected with C9
C3_Witness ==
    /\ Validated("LegalPerson")
    /\ subject.val.national_identification # None
    /\ subject.val.national_identification[1].national_identifier_type = "LEIX"
    /\ subject.val.national_identification[1].national_identifier = "2594007XIACKNMUAW223"
    /\ subject.val.national_identification[1].country_of_issue = None
    /\ subject.val.national_identification[1].registration_authority # None
    /\ match_validation_error(res.out, 9)

\* C4 (rule C7): LegalPerson.validate() fails with an error tagged
\* (IVMS101 C7) if and only if a national identification is present and its
\* type is none of RAID, MISC, LEIX, TXID (it is ARNU, CCPT, DRLC, FIIN, SOCS
\* or IDCD).  C7 is not applied to natural persons: NaturalPerson.validate()
\* never returns C7, and a natural person with valid names and addresses is
\* accepted with an identification of any of the ten types.
C4_LegalRuleC7 ==
    /\ Validated("LegalPerson") =>
        LET nid == subject.val.national_identification
        IN  /\ match_validation_error(res.out, 7) <=>
                (nid # None /\ nid[1].national_identifier_type \notin LegalTypes)
            /\ ( /\ nid # None
                 /\ nid[1].national_identifier_type \in
                        {"ARNU", "CCPT", "DRLC", "FIIN", "SOCS", "IDCD"} )
               => match_validation_error(res.out, 7)
    /\ Validated("NaturalPerson") =>
        /\ ~match_validation_error(res.out, 7)
        /\ ( /\ \A i \in 1..Len(subject.val.name.items) :
                    HasLegl(subject.val.name.items[i].name_identifier.items,
                            "name_identifier_type")
             /\ AllAddressesMeetC8(subject.val) )
           => res.out.ok

\* a legal person identified by an alien registration number (ARNU), with
\* a registration authority and no country of issue, has been rejected with C7
C4_Witness ==
    /\ Validated("LegalPerson")
    /\ subject.val.national_identification # None
    /\ subject.val.national_identification[1].national_identifier_type = "ARNU"
    /\ subject.val.national_identification[1].country_of_issue = None
    /\ subject.val.national_identification[1].registration_authority # None
    /\ match_validation_error(res.out, 7)

\* C5 (rule C11): LegalPerson.validate() fails with an error tagged
\* (IVMS101 C11) if and only if its national identification has type LEIX
\* and the identifier does not pass the LEI validator; the identifier of any
\* other type is not LEI-checked, so that "id" is accepted.
C5_LegalRuleC11 ==
    Validated("LegalPerson") =>
        LET lp == subject.val
            nid == lp.national_identification
        IN  /\ match_validation_error(res.out, 11) <=>
                /\ nid # None
                /\ nid[1].national_identifier_type = "LEIX"
                /\ ~LEI_try_from(nid[1].national_identifier)
            /\ ( /\ nid # None
                 /\ nid[1].national_identifier_type \in {"RAID", "MISC", "TXID"}
                 /\ nid[1].national_identifier = "id"
                 /\ nid[1].country_of_issue = None
                 /\ nid[1].registration_authority # None
                 /\ HasLegl(lp.name.name_identifier.items,
                            "legal_person_name_identifier_type")
                 /\ AllAddressesMeetC8(lp) )
               => res.out.ok

\* a legal person whose MISC identification has the value "id" has been
\* validated and accepted
C5_Witness ==
    /\ Validated("LegalPerson")
    /\ subject.val.national_identification # None
    /\ subject.val.national_identification[1].national_identifier_type = "MISC"
    /\ subject.val.national_identification[1].national_identifier = "id"
    /\ ~LEI_try_from("id")
    /\ res.out.ok

\* every name of a natural person holds a LEGL identifier
AllNamesMeetC6(np) ==
    \A i \in 1..Len(np.name.items) :
        HasLegl(np.name.items[i].name_identifier.items, "name_identifier_type")

\* C11, as claimed: validating a NaturalPerson whose date_and_place_of_birth
\* is present with a birth date that is not strictly before the current date
\* fails, and with an error tagged (IVMS101 C2) when the names and the
\* addresses of the person are valid.
C11_DescendsIntoDateOfBirth ==
    Validated("NaturalPerson") =>
        LET np == subject.val
            dob == np.date_and_place_of_birth
        IN  (dob # None /\ ~(dob[1].date_of_birth < now)) =>
                /\ ~res.out.ok
                /\ (AllNamesMeetC6(np) /\ AllAddressesMeetC8(np))
                        => match_validation_error(res.out, 2)

\* the registration authority of the national identification of a person,
\* when it is present and not on the GLEIF list
HoldsUnlistedAuthority(p) ==
    /\ p.national_identification # None
    /\ p.national_identification[1].registration_authority # None
    /\ ~is_valid_ra(p.national_identification[1].registration_authority[1].inner)

\* C12, as claimed: validating a LegalPerson or a NaturalPerson whose national
\* identification carries a registration authority that is not on the GLEIF
\* list fails; the error is tagged (IVMS101 C10) when no other rule of the
\* person is violated.
C12_DescendsIntoNationalIdentification ==
    /\ (Validated("LegalPerson") /\ res.unit = "messages.rs") =>
        LET lp == subject.val
            nid == lp.national_identification
        IN  HoldsUnlistedAuthority(lp) =>
                /\ ~res.out.ok
                /\ ( /\ nid[1].national_identifier_type \in {"RAID", "MISC", "TXID"}
                     /\ nid[1].country_of_issue = None
                     /\ HasLegl(lp.name.name_identifier.items,
                                "legal_person_name_identifier_type")
                     /\ AllAddressesMeetC8(lp) )
                   => match_validation_error(res.out, 10)
    /\ (Validated("NaturalPerson") /\ res.unit = "messages.rs") =>
        LET np == subject.val
        IN  HoldsUnlistedAuthority(np) =>
                /\ ~res.out.ok
                /\ (AllNamesMeetC6(np) /\ AllAddressesMeetC8(np))
                        => match_validation_error(res.out, 10)

\* a country code that rule C3 rejects
Unrecognized(cc) == cc.inner # "XX" /\ ~iso3166_1_alpha2(cc.inner)

\* some CountryCode held by the person (its own, that of an address, that of
\* its national identification) is rejected by rule C3
HoldsUnrecognizedCountry(p, own) ==
    \/ p[own] # None /\ Unrecognized(p[own][1])
    \/ \E i \in 1..Len(p.geographic_address.items) :
            Unrecognized(p.geographic_address.items[i].country)
    \/ /\ p.national_identification # None
       /\ p.national_identification[1].country_of_issue # None
       /\ Unrecognized(p.national_identification[1].country_of_issue[1])

\* C13, as claimed: validating a person that holds an unrecognized country
\* code of two characters, such as "RR", fails; the error is tagged
\* (IVMS101 C3) when the names and the addresses of the person are valid.
C13_DescendsIntoCountryCodes ==
    /\ (Validated("NaturalPerson") /\ res.unit = "messages.rs") =>
        LET np == subject.val
        IN  HoldsUnrecognizedCountry(np, "country_of_residence") =>
                /\ ~res.out.ok
                /\ (AllNamesMeetC6(np) /\ AllAddressesMeetC8(np))
                        => match_validation_error(res.out, 3)
    /\ (Validated("LegalPerson") /\ res.unit = "messages.rs") =>
        ( HoldsUnrecognizedCountry(subject.val, "country_of_registration")
            => ~res.out.ok )

\* the condition of rule n is violated by the data of a legal person
LegalRuleViolated(n, lp) ==
    LET nid == lp.national_identification
    IN  CASE n = 4 -> /\ ~HasAddressOfType(lp, "GEOG")
                      /\ nid = None
                      /\ lp.customer_identification = None
          [] n = 5 -> ~HasLegl(lp.name.name_identifier.items,
                               "legal_person_name_identifier_type")
          [] n = 7 -> nid # None /\ nid[1].national_identifier_type \notin LegalTypes
          [] n = 8 -> ~AllAddressesMeetC8(lp)
          [] n = 9 -> /\ nid # None
                      /\ \/ nid[1].country_of_issue # None
                         \/ /\ nid[1].national_identifier_type # "LEIX"
                            /\ nid[1].registration_authority = None
                         \/ /\ nid[1].national_identifier_type = "LEIX"
                            /\ nid[1].registration_authority # None
          [] n = 11 -> /\ nid # None
                       /\ nid[1].national_identifier_type = "LEIX"
                       /\ ~LEI_try_from(nid[1].national_identifier)
          [] OTHER -> FALSE

\* the condition of rule n is violated by the data of a natural person
NaturalRuleViolated(n, np) ==
    CASE n = 6 -> ~AllNamesMeetC6(np)
      [] n = 8 -> ~AllAddressesMeetC8(np)
      [] OTHER -> FALSE

\* C14, as claimed: every error returned by validate() ends with the tag
\* (IVMS101 C<n>) of exactly one n in 1..11, and rule n is violated by the
\* value that was validated: no untagged error, no tag of a rule that holds.
C14_TaggedErrors ==
    /\ Validated("LegalPerson") =>
        ( ~res.out.ok =>
            \E n \in 1..11 :
                /\ match_validation_error(res.out, n)
                /\ LegalRuleViolated(n, subject.val) )
    /\ Validated("NaturalPerson") =>
        ( ~res.out.ok =>
            \E n \in 1..11 :
                /\ match_validation_error(res.out, n)
                /\ NaturalRuleViolated(n, subject.val) )

\* C28, as claimed: LegalPerson.validate() returns the first violation in
\* the order C4, C7, C11, C5, C8, C9 and nothing else: the error carries the
\* tag of the first rule of that order that the person violates, and the
\* person passes when it violates none.
C28_FirstViolationOnly ==
    Validated("LegalPerson") =>
        LET order == <<4, 7, 11, 5, 8, 9>>
            violated == {i \in 1..Len(order) : LegalRuleViolated(order[i], subject.val)}
        IN  IF violated = {}
            THEN res.out.ok
            ELSE match_validation_error(res.out,
                    order[CHOOSE i \in violated : \A j \in violated : i <= j])

\* C30: NaturalPerson.validate() fails with an error tagged (IVMS101 C6) as
\* soon as one entry of the name list holds no LEGL identifier, whatever the
\* other entries hold and whatever the addresses are.
C30_EveryNameMeetsC6 ==
    Validated("NaturalPerson") =>
        ( ~AllNamesMeetC6(subject.val) => match_validation_error(res.out, 6) )

\* a person with a legal name first and an alias second, and with an address
\* that violates C8, has been validated and reports C6
C30_Witness ==
    /\ Validated("NaturalPerson")
    /\ subject.val.name = N(<<NaturalPersonName_mock, NaturalPersonName_alias>>)
    /\ ~AllAddressesMeetC8(subject.val)
    /\ match_validation_error(res.out, 6)

-----------------------------------------------------------------------------
(* Claims on the originator, checked under SpecOriginator *)

\* a natural person that holds none of the four items of rule C1
LacksAllFour(person) ==
    /\ person.variant = "NaturalPerson"
    /\ Len(person.natural[1].geographic_address.items) = 0
    /\ person.natural[1].customer_identification = None
    /\ person.natural[1].national_identification = None
    /\ person.natural[1].date_and_place_of_birth = None

\* person.validate() of the revision that res.unit names accepts the person
PassesOtherRules(person) ==
    IF res.unit = "lib.rs"
    THEN lib_Person_validate(person).ok
    ELSE Person_validate(person).ok

\* C1 (rule C1): Originator.validate() returns an error tagged (IVMS101 C1)
\* only if some natural person of originator_persons has an empty geographic
\* address (absent or an empty list), no customer identification, no national
\* identification and no date and place of birth; when every person passes
\* the other rules it returns that error if there is such a person and
\* succeeds if there is none, so any single one of the four items suffices.
C1_OriginatorRuleC1 ==
    Validated("Originator") =>
        LET persons == subject.val.originator_persons.items
            bare == \E i \in 1..Len(persons) : LacksAllFour(persons[i])
        IN  /\ match_validation_error(res.out, 1) => bare
            /\ (\A i \in 1..Len(persons) : PassesOtherRules(persons[i])) =>
                /\ match_validation_error(res.out, 1) <=> bare
                /\ ~bare => res.out.ok

\* an originator whose first person holds only a date and place of birth and
\* whose second person holds none of the four items has been rejected with C1
C1_Witness ==
    /\ Validated("Originator")
    /\ Len(subject.val.originator_persons.items) >= 2
    /\ subject.val.originator_persons.items[1].variant = "NaturalPerson"
    /\ subject.val.originator_persons.items[1].natural[1].date_and_place_of_birth # None
    /\ subject.val.originator_persons.items[1].natural[1].customer_identification = None
    /\ subject.val.originator_persons.items[1].natural[1].national_identification = None
    /\ subject.val.originator_persons.items[1].natural[1].geographic_address = ZNone
    /\ LacksAllFour(subject.val.originator_persons.items[2])
    /\ match_validation_error(res.out, 1)

-----------------------------------------------------------------------------
(* Claims on the message, checked under SpecMessage *)

\* the number of the rule a natural person of a message violates, 0 for none;
\* rule C1 applies to the persons of the originator only
NaturalFault(person, of_originator) ==
    IF of_originator /\ LacksAllFour(person) THEN 1
    ELSE IF ~AllNamesMeetC6(person.natural[1]) THEN 6
    ELSE 0

\* the fault of the first person of the list that has one, 0 when none has
FirstFault(persons, of_originator) ==
    LET faulty == {i \in 1..Len(persons) :
                        NaturalFault(persons[i], of_originator) # 0}
    IN  IF faulty = {} THEN 0
        ELSE NaturalFault(persons[CHOOSE i \in faulty : \A j \in faulty : i <= j],
                          of_originator)

\* the number of the rule the legal person of a VASP violates, 0 for none
LegalFault(person) ==
    LET lp == person.legal[1]
    IN  IF LegalRuleViolated(4, lp) THEN 4
        ELSE IF LegalRuleViolated(11, lp) THEN 11
        ELSE IF LegalRuleViolated(5, lp) THEN 5
        ELSE 0

\* the faults of the four parts of a message in the order originator,
\* beneficiary, originatingVASP, beneficiaryVASP; an absent part has none
PartFaults(m) ==
    << IF m.originator = None THEN 0
       ELSE FirstFault(m.originator[1].originator_persons.items, TRUE),
       IF m.beneficiary = None THEN 0
       ELSE FirstFault(m.beneficiary[1].beneficiary_persons.items, FALSE),
       IF m.originating_vasp = None THEN 0
       ELSE LegalFault(m.originating_vasp[1].originating_vasp),
       IF m.beneficiary_vasp = None THEN 0
       ELSE IF m.beneficiary_vasp[1].beneficiary_vasp = None THEN 0
       ELSE LegalFault(m.beneficiary_vasp[1].beneficiary_vasp[1]) >>

\* C15: IVMS101.validate() visits originator, beneficiary, originatingVASP,
\* beneficiaryVASP in that order, skips absent fields, visits the persons of
\* a container in container order and returns the error of the first failing
\* part; it returns Ok exactly when every present part validates, so a
\* message with all four fields absent is valid.
C15_FirstFailureWins ==
    Validated("IVMS101") =>
        LET faults == PartFaults(subject.val)
            failing == {i \in 1..4 : faults[i] # 0}
        IN  /\ res.out.ok <=> failing = {}
            /\ failing # {} =>
                match_validation_error(res.out,
                    faults[CHOOSE i \in failing : \A j \in failing : i <= j])
            /\ ( /\ subject.val.originator = None
                 /\ subject.val.beneficiary = None
                 /\ subject.val.originating_vasp = None
                 /\ subject.val.beneficiary_vasp = None ) => res.out.ok

\* a message whose originator is valid, whose beneficiary holds a valid person
\* followed by one without legal name, and whose originating VASP violates C4
\* has been rejected with the error of the beneficiary, C6
C15_Witness ==
    /\ Validated("IVMS101")
    /\ subject.val.originator # None
    /\ PartFaults(subject.val)[1] = 0
    /\ subject.val.beneficiary # None
    /\ Len(subject.val.beneficiary[1].beneficiary_persons.items) = 2
    /\ NaturalFault(subject.val.beneficiary[1].beneficiary_persons.items[1], FALSE) = 0
    /\ NaturalFault(subject.val.beneficiary[1].beneficiary_persons.items[2], FALSE) = 6
    /\ PartFaults(subject.val)[3] = 4
    /\ match_validation_error(res.out, 6)

-----------------------------------------------------------------------------
(* Claims on encoding and decoding, checked under SpecWire *)

\* the values of a list of u8 tokens
U8sOf(tokens) == [i \in 1..Len(tokens) |-> tokens[i].val]

\* C18: decoding an empty sequence as OneToN fails; decoding a bare value v
\* and decoding the list [v] both succeed and give a container whose first()
\* is v; for a longer list first() is the first element and iteration yields
\* the elements in input order; every OneToN value, built by From<T>, by
\* NonEmptyVec::try_from or by decoding, holds at least one element.
C18_OneToNDecoding ==
    /\ (res.op = "deserialize" /\ res.unit = "one_to_n.rs") =>
        /\ wire = Token_Seq(<<>>) => ~res.out.ok
        /\ wire.ty = "U8" =>
                (res.out.ok /\ res.out.value.items = <<wire.val>>)
        /\ ( /\ wire.ty = "Seq"
             /\ Len(wire.val) >= 1
             /\ \A i \in 1..Len(wire.val) : wire.val[i].ty = "U8" )
           => (res.out.ok /\ res.out.value.items = U8sOf(wire.val))
        /\ res.out.ok => Len(res.out.value.items) >= 1
    /\ subject.ty = "OneToN<u8>" => Len(subject.val.items) >= 1
    /\ (subject.ty = "Vec<u8>" /\ res.op = "try_from") =>
            (~res.out.ok /\ subject.val = <<>>)
    /\ (res.op = "first" /\ res.unit = "one_to_n.rs") =>
        /\ Len(res.out.value.self.items) >= 1
        /\ res.out.value.ret = res.out.value.self.items[1]
        /\ subject.ty = "tokens" =>
                res.out.value.ret = IF wire.ty = "U8" THEN wire.val
                                    ELSE wire.val[1].val
    /\ (res.op = "into_iter" /\ res.unit = "one_to_n.rs") =>
        /\ res.out.value.ret = res.out.value.self.items
        /\ (subject.ty = "tokens" /\ wire.ty = "Seq") =>
                res.out.value.ret = U8sOf(wire.val)

\* the list [1] has been decoded and first() of the container has returned 1
C18_Witness ==
    /\ subject.ty = "tokens"
    /\ wire = Token_Seq(<<Token_U8(1)>>)
    /\ res.op = "first"
    /\ res.out.value.ret = 1

\* C20: OneToN keeps its shape through encoding and decoding: One(v) is
\* written as the bare value and read back as One(v); N([v]) and
\* N([v1, ..., vk]) are written as a list and read back as N with the same
\* elements in the same order; a list of one element never becomes One, nor
\* a bare value N.
C20_OneToNKeepsShape ==
    subject.ty = "OneToN<u8>" =>
        /\ (res.op = "serialize" /\ res.unit = "one_to_n.rs") =>
                wire = IF subject.val.tag = "One"
                       THEN Token_U8(subject.val.items[1])
                       ELSE Token_Seq([i \in 1..Len(subject.val.items) |->
                                            Token_U8(subject.val.items[i])])
        /\ (res.op = "deserialize" /\ res.unit = "one_to_n.rs") =>
                /\ res.out.ok
                /\ res.out.value.tag = subject.val.tag
                /\ res.out.value.items = subject.val.items

\* N([1]) has been written and read back as N([1])
C20_Witness ==
    /\ subject = [ty |-> "OneToN<u8>", val |-> N(<<1>>)]
    /\ wire = Token_Seq(<<Token_U8(1)>>)
    /\ res.op = "deserialize"
    /\ res.out.ok
    /\ res.out.value = N(<<1>>)

\* what decoding yields for a ZeroToN field: the empty list is not written
\* and the absent field is read as ZeroToN::None
ZeroToN_as_decoded(c) == IF c.tag = "N" /\ c.items = <<>> THEN ZNone ELSE c

NaturalPersonName_as_decoded(n) ==
    [n EXCEPT !.local_name_identifier = ZeroToN_as_decoded(@),
              !.phonetic_name_identifier = ZeroToN_as_decoded(@)]

Address_as_decoded(a) == [a EXCEPT !.address_line = ZeroToN_as_decoded(@)]

Addresses_as_decoded(c) ==
    ZeroToN_as_decoded(
        [c EXCEPT !.items = [i \in 1..Len(c.items) |-> Address_as_decoded(c.items[i])]])

Person_as_decoded(p) ==
    IF p.variant = "NaturalPerson"
    THEN Person_NaturalPerson(
            [p.natural[1] EXCEPT
                !.name = [@ EXCEPT !.items =
                    [i \in 1..Len(@) |-> NaturalPersonName_as_decoded(@[i])]],
                !.geographic_address = Addresses_as_decoded(@)])
    ELSE Person_LegalPerson(
            [p.legal[1] EXCEPT
                !.name = [@ EXCEPT
                    !.local_name_identifier = ZeroToN_as_decoded(@),
                    !.phonetic_name_identifier = ZeroToN_as_decoded(@)],
                !.geographic_address = Addresses_as_decoded(@)])

Persons_as_decoded(c) ==
    [c EXCEPT !.items = [i \in 1..Len(c.items) |-> Person_as_decoded(c.items[i])]]

Part_as_decoded(ty, val) ==
    CASE ty = "Address" -> Address_as_decoded(val)
      [] ty = "Person" -> Person_as_decoded(val)
      [] ty = "Originator" ->
            [val EXCEPT !.originator_persons = Persons_as_decoded(@),
                        !.account_number = ZeroToN_as_decoded(@)]
      [] ty = "Beneficiary" ->
            [val EXCEPT !.beneficiary_persons = Persons_as_decoded(@),
                        !.account_number = ZeroToN_as_decoded(@)]

\* Validatable::validate of the part
Part_validate(ty, val) ==
    CASE ty = "Address" -> Address_validate(val)
      [] ty = "Person" -> Person_validate(val)
      [] ty = "Originator" -> Originator_validate(val)
      [] ty = "Beneficiary" -> Beneficiary_validate(val)

\* a valid part has been encoded and the encoding decoded
RoundTripDone ==
    /\ subject.ty \in PartTypes
    /\ res.op = "deserialize"
    /\ wire = Serialize("one", subject.ty, subject.val)
    /\ Part_validate(subject.ty, subject.val).ok

\* C19 as stated: decoding the encoding of a valid message part yields a
\* value equal to the original, whatever the state of its ZeroToN fields
C19_RoundTripEqual ==
    RoundTripDone => res.out.ok /\ res.out.value = subject.val

\* C19 amended: decoding the encoding of a valid message part succeeds and
\* yields the original with every empty ZeroToN list read back as None;
\* it is equal to the original when no ZeroToN field holds an empty list
C19_RoundTripUpToEmptyLists ==
    RoundTripDone =>
        /\ res.out.ok
        /\ res.out.value = Part_as_decoded(subject.ty, subject.val)

\* an originator with an empty list of account numbers has made the trip
C19_Witness ==
    /\ RoundTripDone
    /\ subject.ty = "Originator"
    /\ subject.val.account_number = N(<<>>)
    /\ res.out.ok
    /\ res.out.value.account_number = ZNone
    /\ res.out.value.originator_persons = subject.val.originator_persons

-----------------------------------------------------------------------------
(* Claims on builders and accessors, checked under SpecHelpers *)

\* the first person of the record that last_name() was called on
FirstPerson ==
    CASE subject.ty = "Person" -> subject.val
      [] subject.ty = "Originator" -> OneToN_first(subject.val.originator_persons)
      [] subject.ty = "Beneficiary" -> OneToN_first(subject.val.beneficiary_persons)

\* C24, as claimed: last_name() of a Person, an Originator or a Beneficiary
\* whose (first) person is a LegalPerson returns the name carried by the
\* LEGL-typed identifier of that person, also when that identifier is not the
\* first entry of name_identifier; first_name() of a LegalPerson returns
\* nothing.
C24_LastNameIsLegalName ==
    /\ ( res.op = "last_name" /\ FirstPerson.variant = "LegalPerson" ) =>
            LET ids == FirstPerson.legal[1].name.name_identifier.items
            IN  \A i \in 1..Len(ids) :
                    ids[i].legal_person_name_identifier_type = "LEGL"
                        => res.out.value = ids[i].legal_person_name
    /\ ( res.op = "first_name" /\ subject.val.variant = "LegalPerson" ) =>
            res.out.value = None

\* a natural person with a name of LEGL type in each entry of name and none
\* of the four items of rule C1
Bare(person) ==
    /\ LacksAllFour(person)
    /\ AllNamesMeetC6(person.natural[1])

\* C22 (rule C1): a natural person with a LEGL name and none of the four
\* items passes Beneficiary.validate(), NaturalPerson.validate() and
\* Person.validate(); Beneficiary.validate() never returns an error tagged
\* (IVMS101 C1); Originator.validate() returns that error only when one of
\* its natural persons lacks the four items, so an originator of legal
\* persons never gets it.
C22_RuleC1OnlyForOriginators ==
    /\ Validated("Beneficiary") =>
            LET persons == subject.val.beneficiary_persons.items
            IN  /\ ~match_validation_error(res.out, 1)
                /\ (\A i \in 1..Len(persons) : Bare(persons[i])) => res.out.ok
    /\ ( Validated("Person") /\ Bare(subject.val) ) => res.out.ok
    /\ ( Validated("NaturalPerson") /\ Bare(Person_NaturalPerson(subject.val)) )
            => res.out.ok
    /\ ( Validated("Originator") /\ match_validation_error(res.out, 1) ) =>
            LET persons == subject.val.originator_persons.items
            IN  \E i \in 1..Len(persons) :
                    /\ persons[i].variant = "NaturalPerson"
                    /\ LacksAllFour(persons[i])

\* a beneficiary of two persons, a natural person with a LEGL name and none
\* of the four items and a legal person with a customer id, has passed
C22_Witness ==
    /\ Validated("Beneficiary")
    /\ subject.val.beneficiary_persons =
            N(<<Person_NaturalPerson(NaturalPerson_mock),
                Person_LegalPerson([LegalPerson_mock EXCEPT
                                        !.customer_identification = Some("id")])>>)
    /\ res.out.ok

\* C23: NaturalPerson::new succeeds if and only if first_name and last_name
\* are at most 100 long and customer_identification, when given, at most 50
\* long.  The person returned has one name with one identifier, of type LEGL,
\* with last_name as primary and first_name as secondary identifier, so that
\* first_name() and last_name() return the arguments; its addresses are the
\* given address and nothing else; it has no national identification, date
\* and place of birth or country of residence.  A failed call returns no
\* person.
C23_NaturalPersonNew ==
    ( subject.ty = "NaturalPerson::new" /\ res.op = "new" ) =>
        LET a == subject.val
            fits == /\ Len(a.first_name) <= 100
                    /\ Len(a.last_name) <= 100
                    /\ ( a.customer_identification # None
                            => Len(a.customer_identification[1]) <= 50 )
        IN  /\ res.out.ok <=> fits
            /\ ~res.out.ok => res.out.value = None
            /\ res.out.ok =>
                LET p == res.out.value[1]
                    names == OneToN_into_iter(p.name)
                    ids == OneToN_into_iter(names[1].name_identifier)
                IN  /\ Len(names) = 1
                    /\ Len(ids) = 1
                    /\ ids[1].name_identifier_type = "LEGL"
                    /\ ids[1].primary_identifier = a.last_name
                    /\ ids[1].secondary_identifier = Some(a.first_name)
                    /\ NaturalPerson_first_name(p) = Some(a.first_name)
                    /\ NaturalPerson_last_name(p) = a.last_name
                    /\ ZeroToN_into_iter(p.geographic_address) = a.address
                    /\ p.national_identification = None
                    /\ p.date_and_place_of_birth = None
                    /\ p.country_of_residence = None

\* Friedrich Engels has been built with a customer id of 50 characters and
\* an address
C23_Witness ==
    /\ subject.ty = "NaturalPerson::new"
    /\ res.op = "new"
    /\ subject.val.first_name = "Friedrich"
    /\ subject.val.last_name = "Engels"
    /\ subject.val.customer_identification # None
    /\ Len(subject.val.customer_identification[1]) = 50
    /\ subject.val.address = Some(Address_mock)
    /\ res.out.ok
    /\ NaturalPerson_last_name(res.out.value[1]) = "Engels"

\* person.validate() in the revision that res.unit names
PersonOutcome(person) ==
    IF res.unit = "lib.rs" THEN lib_Person_validate(person) ELSE Person_validate(person)

\* C25, as claimed: validate() returns success for every IntermediaryVASP
\* record, whatever its sequence and whatever person it carries.
C25_StubPassesUnconditionally ==
    Validated("IntermediaryVASP") => res.out.ok

\* C25, amended: validate() of an IntermediaryVASP returns what validate()
\* of its person returns, whatever the sequence, and never an error tagged
\* (IVMS101 C12).
C25_ValidatesThePersonOnly ==
    Validated("IntermediaryVASP") =>
        /\ res.out = PersonOutcome(subject.val.intermediary_vasp)
        /\ ~match_validation_error(res.out, 12)

\* a record with the largest sequence drawn that carries a legal person
\* without address, customer id and national identification was rejected
\* with C4
C25_Witness ==
    /\ Validated("IntermediaryVASP")
    /\ subject.val.sequence = 2147483647
    /\ subject.val.intermediary_vasp = Person_LegalPerson(LegalPerson_mock)
    /\ match_validation_error(res.out, 4)

\* C29: OriginatingVASP::new succeeds for every name of at most 100
\* characters and a valid LEI; the record has no address, no customer id, one
\* name identifier of type LEGL and a LEIX identification without country of
\* issue and registration authority, and passes validate().  The person
\* returned by LegalPerson::new passes validate() or fails it with (IVMS101
\* C8), and fails only when its address does not meet rule C8.
C29_BuildersProduceValidLegalPersons ==
    /\ ( subject.ty = "OriginatingVASP::new" /\ res.op = "new" ) =>
            /\ Len(subject.val.name) <= 100 => res.out.ok
            /\ res.out.ok =>
                LET lp == res.out.value[1].originating_vasp.legal[1]
                    ni == lp.national_identification[1]
                IN  /\ ZeroToN_is_empty(lp.geographic_address)
                    /\ lp.customer_identification = None
                    /\ lp.name.name_identifier =
                            One([legal_person_name |-> subject.val.name,
                                 legal_person_name_identifier_type |-> "LEGL"])
                    /\ ni.national_identifier_type = "LEIX"
                    /\ ni.national_identifier = subject.val.lei
                    /\ ni.country_of_issue = None
                    /\ ni.registration_authority = None
    /\ Validated("OriginatingVASP::new") => res.out.ok
    /\ Validated("LegalPerson::new") =>
            /\ res.out.ok \/ match_validation_error(res.out, 8)
            /\ res.out.ok <=> AddressMeetsC8(subject.val.address)

\* a legal person built with an address that has neither a line nor a street
\* has been rejected with C8
C29_Witness ==
    /\ Validated("LegalPerson::new")
    /\ subject.val.name = "Company A"
    /\ ~AddressMeetsC8(subject.val.address)
    /\ match_validation_error(res.out, 8)

-----------------------------------------------------------------------------
(* Claims on ZeroToN, checked under SpecWire *)

\* the encoded struct has an entry under the key
HasKey(token, key) ==
    /\ token.ty = "Map"
    /\ \E i \in 1..Len(token.val) : token.val[i].key = key

\* C21: ZeroToN::is_empty() is true if and only if the container is None or
\* N of an empty list; first() returns nothing exactly when is_empty() is
\* true and the first element otherwise; the accountNumber field of an
\* Originator or Beneficiary, a ZeroToN, is left out of the encoding exactly
\* when is_empty() is true, and a part decoded from an encoding without the
\* field has the field in state None.
C21_ZeroToNEmptiness ==
    /\ ( res.op = "is_empty" /\ res.unit = "zero_to_n.rs" ) =>
            LET c == res.out.value.self
            IN  res.out.value.ret <=>
                    ( c.tag = "None" \/ (c.tag = "N" /\ Len(c.items) = 0) )
    /\ ( res.op = "first" /\ res.unit = "zero_to_n.rs" ) =>
            LET c == res.out.value.self
            IN  /\ res.out.value.ret = None <=> ZeroToN_is_empty(c)
                /\ ~ZeroToN_is_empty(c) => res.out.value.ret = Some(c.items[1])
    /\ ( subject.ty \in {"Originator", "Beneficiary"} /\ res.op = "serialize" ) =>
            ( ~HasKey(wire, "accountNumber")
                <=> ZeroToN_is_empty(subject.val.account_number) )
    /\ ( /\ subject.ty \in {"Originator", "Beneficiary"}
         /\ res.op = "deserialize"
         /\ res.out.ok
         /\ ~HasKey(wire, "accountNumber") ) =>
            res.out.value.account_number = ZNone

\* first() has returned nothing for N of an empty list
C21_Witness ==
    /\ subject = [ty |-> "ZeroToN<u8>", val |-> N(<<>>)]
    /\ res.op = "first"
    /\ res.out.value.ret = None

-----------------------------------------------------------------------------
(* Claims on the country table, checked under SpecCountry *)

\* the table that the closure of country() builds
FullTable == {COUNTRY_CODES_init[i] : i \in 1..Len(COUNTRY_CODES_init)}

\* the name stored for the code, or the code when there is none
NameOrEcho(code) ==
    IF \E e \in FullTable : e[1] = code
    THEN (CHOOSE e \in FullTable : e[1] = code)[2]
    ELSE code

\* C27: under every interleaving of calls of country() by several threads
\* the closure that builds the table is run at most once; the cell holds
\* nothing until it holds the complete table; every call that has returned,
\* whether it initialized, waited for the initializer or found the table,
\* has read the complete table and returned the name stored for its code, or
\* the code itself when the table has no such code; and no step changes the
\* cell once it is complete.
C27_TableInitializedOnce ==
    /\ [] ( /\ COUNTRY_CODES.inits <= 1
            /\ IF COUNTRY_CODES.state = "complete"
               THEN COUNTRY_CODES.value = FullTable
               ELSE COUNTRY_CODES.value = {}
            /\ \A t \in DOMAIN threads :
                    ( threads[t].pc = "idle" /\ threads[t].path # "" ) =>
                        /\ threads[t].seen = FullTable
                        /\ threads[t].ret = NameOrEcho(threads[t].code) )
    /\ [][ COUNTRY_CODES.state = "complete" => COUNTRY_CODES' = COUNTRY_CODES ]_vars

\* two first calls have raced: thread 1 ran the closure and returned the
\* name of "af", thread 2 waited for it and got the unknown code "zz" back
C27_Witness ==
    /\ COUNTRY_CODES.state = "complete"
    /\ COUNTRY_CODES.inits = 1
    /\ threads[1] = [pc |-> "idle", code |-> "af", local |-> FullTable,
                     path |-> "init", seen |-> FullTable, ret |-> "Afghanistan"]
    /\ threads[2].pc = "idle"
    /\ threads[2].path = "wait"
    /\ threads[2].code = "zz"
    /\ threads[2].ret = "zz"

-----------------------------------------------------------------------------
(* Claims on determinism, checked under Spec *)

====
